---- MODULE Spec2Model ----
(***************************************************************************)
(* A model of the EmoTune recommendation engine:                           *)
(*   src/src/recommender/feature_builder.py      (catalog, scaler, matrix) *)
(*   src/src/recommender/similarity_engine.py    (caches, the queries)     *)
(*   src/src/recommender/recommendation_pipeline.py (the facade)           *)
(*                                                                         *)
(* Numbers.  Audio features are integers: the 0..1 features in hundredths, *)
(* loudness in dB, tempo in half BPM.  Standardised values are fixed-point *)
(* with ZScale units per 1.0, similarity scores with SimScale units per    *)
(* 1.0.  Strings that the code inspects character by character (track     *)
(* names, name queries) are sequences of one-character strings.            *)
(***************************************************************************)
EXTENDS Integers, Sequences, FiniteSets, TLC

\* ------------------------------------------------------------------ bounds
MaxRows == 4
MaxTopK == 3
MaxLoads == 2
NumThreads == 2

\* ------------------------------------------------------------ fixed point
\* units per 1.0 of a standardised value, and of a similarity score
ZScale == 10 * 10
SimScale == 10 * 10 * 10

\* Python's None where a string may stand (a preset, a genre), and a module
\* global that is None or holds a value
None == "None"
\* a missing value of a frame: the float nan that read_csv puts in an empty
\* cell, also in a column of strings
NaN == "nan"
Unset == << >>
Holding(x) == << x >>

RECURSIVE IsqrtBetween(_, _, _)
IsqrtBetween(n, lo, hi) ==
    IF lo >= hi THEN lo
    ELSE LET mid == (lo + hi + 1) \div 2
         IN  IF mid * mid <= n THEN IsqrtBetween(n, mid, hi)
                               ELSE IsqrtBetween(n, lo, mid - 1)

\* floor of the square root, for 0 <= n < 2^31
Isqrt(n) == IsqrtBetween(n, 0, 46340)

\* x / y rounded towards zero, as the sign-symmetric float operations do
DivT(x, y) == IF x >= 0 THEN x \div y ELSE -((-x) \div y)

\* F applied to the value of x: x is evaluated once, before F looks at it
Bind(x, F(_)) == CHOOSE r \in { F(v) : v \in { x } } : TRUE

\* --------------------------------------------------------- feature_builder
AUDIO_FEATURES ==
    << "danceability", "energy", "loudness", "speechiness", "acousticness",
       "instrumentalness", "liveness", "valence", "tempo" >>

FeatureNames == { AUDIO_FEATURES[i] : i \in 1..Len(AUDIO_FEATURES) }

\* the sum of a vector's nine components
SumFeat(v) ==
    v.danceability + v.energy + v.loudness + v.speechiness + v.acousticness
    + v.instrumentalness + v.liveness + v.valence + v.tempo

\* weights in tenths
FEATURE_WEIGHT_PRESETS ==
    [ default |-> [ f \in FeatureNames |-> 10 ],
      mood |->
        [ danceability |-> 8, energy |-> 15, loudness |-> 5, speechiness |-> 3,
          acousticness |-> 12, instrumentalness |-> 10, liveness |-> 3,
          valence |-> 15, tempo |-> 6 ],
      workout |->
        [ danceability |-> 15, energy |-> 20, loudness |-> 10, speechiness |-> 3,
          acousticness |-> 3, instrumentalness |-> 5, liveness |-> 5,
          valence |-> 8, tempo |-> 15 ],
      chill |->
        [ danceability |-> 5, energy |-> 5, loudness |-> 5, speechiness |-> 3,
          acousticness |-> 18, instrumentalness |-> 15, liveness |-> 3,
          valence |-> 12, tempo |-> 5 ],
      psychedelic |->
        [ danceability |-> 10, energy |-> 4, loudness |-> 3, speechiness |-> 2,
          acousticness |-> 15, instrumentalness |-> 20, liveness |-> 3,
          valence |-> 18, tempo |-> 12 ],
      indie |->
        [ danceability |-> 8, energy |-> 7, loudness |-> 5, speechiness |-> 5,
          acousticness |-> 15, instrumentalness |-> 12, liveness |-> 8,
          valence |-> 13, tempo |-> 10 ] ]

PresetNames == DOMAIN FEATURE_WEIGHT_PRESETS

\* the column sums of the raw features and of their squares
RECURSIVE ColumnSums(_, _)
ColumnSums(df, n) ==
    IF n = 0 THEN [ s |-> [ f \in FeatureNames |-> 0 ],
                    q |-> [ f \in FeatureNames |-> 0 ] ]
    ELSE Bind(ColumnSums(df, n - 1), LAMBDA acc :
           [ s |-> [ f \in FeatureNames |-> acc.s[f] + df[n].feat[f] ],
             q |-> [ f \in FeatureNames |->
                       acc.q[f] + df[n].feat[f] * df[n].feat[f] ] ])

\* StandardScaler.fit: per feature the row count, the sum and the scale
\* n * sigma = sqrt(n * sum(x^2) - sum(x)^2); a constant feature scales by 1.
ScalerFit(df) ==
    Bind(ColumnSums(df, Len(df)), LAMBDA c :
      [ n |-> Len(df),
        sum |-> c.s,
        nsigma |-> [ f \in FeatureNames |->
                       Isqrt(Len(df) * c.q[f] - c.s[f] * c.s[f]) ] ])

\* StandardScaler.transform of one raw vector: (x - mean) / scale
ScalerTransform(sc, x) ==
    [ f \in FeatureNames |->
        IF sc.nsigma[f] = 0
        THEN DivT((sc.n * x[f] - sc.sum[f]) * ZScale, sc.n)
        ELSE DivT((sc.n * x[f] - sc.sum[f]) * ZScale, sc.nsigma[f]) ]

\* the weights build_feature_matrix applies: a preset that names a table
\* selects it, anything else leaves the matrix unweighted
WeightsOf(preset) ==
    IF preset # None /\ preset \in PresetNames
    THEN FEATURE_WEIGHT_PRESETS[preset]
    ELSE [ f \in FeatureNames |-> 10 ]

\* build_feature_matrix given the scaler to transform with
BuildMatrix(df, sc, preset) ==
    Bind(WeightsOf(preset), LAMBDA w :
      [ i \in 1..Len(df) |->
          Bind(ScalerTransform(sc, df[i].feat), LAMBDA z :
            [ f \in FeatureNames |-> DivT(z[f] * w[f], 10) ]) ])

\* ------------------------------------------------------- cosine_similarity
Dot(a, b) ==
    a.danceability * b.danceability + a.energy * b.energy
    + a.loudness * b.loudness + a.speechiness * b.speechiness
    + a.acousticness * b.acousticness
    + a.instrumentalness * b.instrumentalness + a.liveness * b.liveness
    + a.valence * b.valence + a.tempo * b.tempo

\* sklearn normalises each vector to unit length (a zero vector stays zero)
Normalize(v) ==
    Bind(Isqrt(Dot(v, v)), LAMBDA nrm :
      IF nrm = 0 THEN v
      ELSE [ f \in FeatureNames |-> DivT(v[f] * SimScale, nrm) ])

\* cosine_similarity(base, X)[0]: one score per row of X
CosineSimilarity(base, X) ==
    Bind(Normalize(base), LAMBDA nb :
      [ i \in 1..Len(X) |-> DivT(Dot(nb, Normalize(X[i])), SimScale) ])

\* --------------------------------------------------------------- strings
\* str.lower() on the characters and on the whole strings the model uses
LowerChar(c) == CASE c = "A" -> "a" [] c = "B" -> "b" [] OTHER -> c

StrLower(s) ==
    CASE s = "Pop" -> "pop"
      [] s = "CALM" -> "calm"
      [] OTHER -> s

SeqLower(s) == [ i \in 1..Len(s) |-> LowerChar(s[i]) ]

RECURSIVE LStrip(_)
LStrip(s) == IF s # << >> /\ Head(s) = " " THEN LStrip(Tail(s)) ELSE s

RECURSIVE RStrip(_)
RStrip(s) ==
    IF s # << >> /\ s[Len(s)] = " " THEN RStrip(SubSeq(s, 1, Len(s) - 1)) ELSE s

\* str.strip()
SeqStrip(s) == LStrip(RStrip(s))

\* str.contains(sub, regex=False)
SeqContains(s, sub) ==
    \E k \in 0..(Len(s) - Len(sub)) : SubSeq(s, k + 1, k + Len(sub)) = sub

\* ------------------------------------------------------------ the catalog
Feat(d, e, l, s, a, i, lv, v, t) ==
    [ danceability |-> d, energy |-> e, loudness |-> l, speechiness |-> s,
      acousticness |-> a, instrumentalness |-> i, liveness |-> lv,
      valence |-> v, tempo |-> t ]

\* the audio cells of a row that hold no finite number: "nan", "inf" or
\* "-inf" where the source has one, "finite" elsewhere
NoSpecial == [ f \in FeatureNames |-> "finite" ]

\* a row of the source.  feat holds the audio features as
\* build_feature_matrix reads them, after np.nan_to_num (nan and -inf as 0,
\* inf as 1.0); special tells which of them the frame holds as nan or inf.
Track(id, name, artist, genre, subgenre, year, feat) ==
    [ track_id |-> id, track_name |-> name, track_artist |-> artist,
      playlist_genre |-> genre, playlist_subgenre |-> subgenre,
      year |-> year, feat |-> feat, special |-> NoSpecial ]

\* The rows a catalog is drawn from.  Rows 2 and 4 share a track_id and differ
\* in genre; rows 1, 2, 3 and 5 share an artist; row 3 has the subgenre of
\* row 1 under another genre; year 0 is a missing release date.
TrackPool ==
    << Track("t1", <<"A", "b">>, "X", "pop", "dance pop", 1995,
             Feat(80, 85, -5, 10, 10, 0, 20, 90, 260)),
       Track("t2", <<"b">>, "X", "pop", "electropop", 2005,
             Feat(30, 20, -18, 4, 85, 40, 10, 25, 150)),
       Track("t3", <<"a">>, "X", "rock", "dance pop", 2015,
             Feat(70, 75, -7, 8, 20, 5, 30, 70, 240)),
       Track("t2", <<"b", " ">>, "Y", "rock", "hard rock", 0,
             Feat(40, 35, -14, 5, 70, 30, 12, 40, 170)),
       Track("t4", <<"B", "a">>, "X", "Pop", "electropop", 1995,
             Feat(60, 90, -4, 20, 5, 0, 35, 30, 280)) >>

PoolIds == 1..Len(TrackPool)

\* catalogs: 1..MaxRows distinct pool rows, in pool order or in its reverse
IndexSeqs == UNION { [ 1..n -> PoolIds ] : n \in 1..MaxRows }

Catalogs ==
    { [ i \in DOMAIN s |-> TrackPool[s[i]] ] :
        s \in { q \in IndexSeqs :
                  \/ \A i, j \in DOMAIN q : i < j => q[i] < q[j]
                  \/ \A i, j \in DOMAIN q : i < j => q[i] > q[j] } }

\* the columns of a source
REQUIRED_META == { "track_id", "track_name", "track_artist" }
OptionalColumns ==
    { "playlist_genre", "playlist_subgenre", "track_album_release_date" }
AllColumns == REQUIRED_META \cup FeatureNames \cup OptionalColumns

\* the column sets a source is drawn with: complete, lacking optional
\* columns, lacking a required column
ColumnSets ==
    { AllColumns,
      AllColumns \ { "playlist_genre" },
      AllColumns \ { "playlist_subgenre", "track_album_release_date" },
      AllColumns \ { "track_id" },
      AllColumns \ { "tempo", "playlist_genre" } }

\* a catalog with empty cells: row 1 has no genre and no subgenre, row 2 a
\* genre and no subgenre, row 3 holds inf, -inf and nan among its audio
\* features
MissingValueRows ==
    << [ TrackPool[1] EXCEPT !.playlist_genre = NaN, !.playlist_subgenre = NaN ],
       [ TrackPool[2] EXCEPT !.playlist_subgenre = NaN ],
       [ TrackPool[3] EXCEPT !.feat.liveness = 100, !.special.liveness = "inf",
                             !.feat.speechiness = 0,
                             !.special.speechiness = "-inf",
                             !.feat.valence = 0, !.special.valence = "nan" ],
       TrackPool[5] >>

\* a catalog of five tracks, four of them by one artist
DiversityRows ==
    << TrackPool[1],
       [ TrackPool[2] EXCEPT !.track_artist = "Y" ],
       TrackPool[3],
       [ TrackPool[4] EXCEPT !.track_id = "t5", !.track_artist = "X" ],
       TrackPool[5] >>

\* the sources: every catalog with all columns, the catalog of the first
\* MaxRows pool rows with each of the other column sets, the catalog with
\* empty cells, and the catalog of five tracks
Sources ==
    { [ rows |-> c, columns |-> AllColumns ] : c \in Catalogs }
    \cup { [ rows |-> [ i \in 1..MaxRows |-> TrackPool[i] ], columns |-> cs ] :
             cs \in ColumnSets \ { AllColumns } }
    \cup { [ rows |-> MissingValueRows, columns |-> AllColumns ],
           [ rows |-> DiversityRows, columns |-> AllColumns ] }

\* a variant that asks for every column
MissingAnyColumn(cols) == AllColumns \ cols

\* load_song_data: the required columns the source lacks
MissingColumns(cols) == (REQUIRED_META \cup FeatureNames) \ cols

\* a row of the frame: an optional column the source lacks has no value
LoadedRow(row, cols) ==
    [ row EXCEPT
        !.playlist_genre = IF "playlist_genre" \in cols THEN @ ELSE None,
        !.playlist_subgenre = IF "playlist_subgenre" \in cols THEN @ ELSE None,
        !.year = IF "track_album_release_date" \in cols THEN @ ELSE 0 ]

\* load_song_data: the frame read from the source, or ValueError when a
\* required column is missing
LoadSongData(src, cols) ==
    IF MissingColumns(cols) # {}
    THEN [ error |-> "ValueError", df |-> << >> ]
    ELSE [ error |-> None, df |-> [ i \in 1..Len(src) |-> LoadedRow(src[i], cols) ] ]

\* ----------------------------------------------------------- mood matching
\* prototype targets in hundredths
MOOD_PROTOTYPES ==
    [ happy     |-> Feat(70, 75, 65, 10, 25, 5, 20, 85, 60),
      sad       |-> Feat(35, 30, 40, 5, 70, 20, 10, 20, 40),
      energetic |-> Feat(80, 90, 80, 15, 10, 10, 30, 75, 70),
      calm      |-> Feat(40, 25, 35, 5, 75, 40, 10, 55, 35),
      angry     |-> Feat(50, 90, 85, 20, 5, 5, 25, 25, 65),
      romantic  |-> Feat(55, 45, 50, 5, 60, 15, 15, 75, 45),
      mellow    |-> Feat(50, 40, 45, 5, 55, 30, 12, 55, 45),
      focus     |-> Feat(45, 35, 40, 3, 50, 70, 10, 50, 50),
      nostalgic |-> Feat(55, 50, 50, 8, 45, 15, 15, 60, 50) ]

MoodNames == DOMAIN MOOD_PROTOTYPES

\* the mood the request resolves to
\* a variant with another fallback
MoodKeyFallbackHappy(mood) ==
    IF StrLower(mood) \in MoodNames THEN StrLower(mood) ELSE "happy"

MoodKey(mood) ==
    IF StrLower(mood) \in MoodNames THEN StrLower(mood) ELSE "calm"

\* the prototype in the raw units of the catalog: tempo p*150+50 BPM (in half
\* BPM: 3p + 100 for p in hundredths), loudness p*60-60 dB
ProtoRaw(mood_key) ==
    LET proto == MOOD_PROTOTYPES[mood_key]
    IN  [ f \in FeatureNames |->
            IF f = "tempo" THEN 3 * proto[f] + 100
            ELSE IF f = "loudness" THEN (60 * proto[f]) \div 100 - 60
            ELSE proto[f] ]

\* the release-year factor of the nostalgic mood, in hundredths
YearBoost(y) == IF y # 0 /\ y < 2000 THEN 108
                ELSE IF y # 0 /\ y < 2010 THEN 105 ELSE 100

\* the frame with its similarity column: each row keeps its index label
WithSimilarity(songs, sims) ==
    [ i \in 1..Len(songs) |->
        [ idx |-> i, track |-> songs[i], similarity |-> sims[i] ] ]

\* sort_values("similarity", ascending=False): ties keep their order
RECURSIVE InsertDesc(_, _)
InsertDesc(sorted, r) ==
    IF sorted = << >> THEN << r >>
    ELSE IF Head(sorted).similarity >= r.similarity
         THEN << Head(sorted) >> \o InsertDesc(Tail(sorted), r)
         ELSE << r >> \o sorted

RECURSIVE SortPrefix(_, _)
SortPrefix(rows, n) ==
    IF n = 0 THEN << >>
    ELSE Bind(SortPrefix(rows, n - 1), LAMBDA sorted : InsertDesc(sorted, rows[n]))

\* a variant that leaves the rows as they are
SortSkipped(rows) == rows

SortDesc(rows) == Bind(rows, LAMBDA rs : SortPrefix(rs, Len(rs)))

\* DataFrame.head(k)
HeadRows(rows, k) ==
    Bind(rows, LAMBDA rs : SubSeq(rs, 1, IF k < Len(rs) THEN k ELSE Len(rs)))

\* the rows at the given positions, in their order
RowsAt(rows, keep) ==
    [ k \in 1..Cardinality(keep) |->
        rows[CHOOSE i \in keep : Cardinality({ j \in keep : j <= i }) = k] ]

\* a variant that applies the release-year factor whatever the mood
MoodRowsBoostAlways(songs, X, sc, mood, top_k) ==
    Bind(ProtoRaw(MoodKey(mood)), LAMBDA proto_vector :
    Bind(IF sc # Unset THEN ScalerTransform(sc[1], proto_vector)
         ELSE proto_vector, LAMBDA proto_scaled :
    Bind(CosineSimilarity(proto_scaled, X), LAMBDA sims :
    Bind([ i \in 1..Len(songs) |->
             DivT(sims[i] * YearBoost(songs[i].year), 100) ], LAMBDA boosted :
      HeadRows(SortDesc(WithSimilarity(songs, boosted)), top_k)))))

\* get_mood_recommendations after the catalog and the matrix are at hand:
\* the rows returned, each with its similarity
MoodRows(songs, X, sc, mood, top_k) ==
    Bind(ProtoRaw(MoodKey(mood)), LAMBDA proto_vector :
    Bind(IF sc # Unset THEN ScalerTransform(sc[1], proto_vector)
         ELSE proto_vector, LAMBDA proto_scaled :
    Bind(CosineSimilarity(proto_scaled, X), LAMBDA sims :
    Bind([ i \in 1..Len(songs) |->
             IF MoodKey(mood) = "nostalgic"
             THEN DivT(sims[i] * YearBoost(songs[i].year), 100)
             ELSE sims[i] ], LAMBDA boosted :
      HeadRows(SortDesc(WithSimilarity(songs, boosted)), top_k)))))

\* the cell of an audio feature as the frame holds it
RawFeature(track, f) ==
    [ special |-> track.special[f],
      n |-> IF track.special[f] = "finite" THEN track.feat[f] ELSE 0 ]

\* x > bound and x < bound on such a cell: every comparison with nan is false
CellAbove(cell, bound) ==
    \/ cell.special = "inf"
    \/ cell.special = "finite" /\ cell.n > bound

CellBelow(cell, bound) ==
    \/ cell.special = "-inf"
    \/ cell.special = "finite" /\ cell.n < bound

\* _explain of get_mood_recommendations: the text names the mood as the
\* caller gave it, then the row's valence and energy, then for the focus
\* prototype the highlights
MoodExplain(mood, row) ==
    [ text |-> "Matches",
      mood |-> mood,
      valence |-> RawFeature(row.track, "valence"),
      energy |-> RawFeature(row.track, "energy"),
      highlights |->
        IF MoodKey(mood) # "focus" THEN << >>
        ELSE (IF CellAbove(RawFeature(row.track, "instrumentalness"), 30)
              THEN << "instrumental" >> ELSE << >>)
             \o (IF CellBelow(RawFeature(row.track, "speechiness"), 10)
                 THEN << "low vocals" >> ELSE << >>) ]

\* the explanation column of a mood result
MoodExplanations(mood, rows) ==
    [ k \in 1..Len(rows) |-> MoodExplain(mood, rows[k]) ]

\* ------------------------------------------------- track-to-track matching
\* factors in hundredths
GENRE_BOOST_FACTOR == 115
SUBGENRE_BOOST_FACTOR == 110

\* a variant of the cap on rows per artist
MaxPerArtistLoose == 2 + 1

MAX_PER_ARTIST == 2

\* _apply_genre_boost; ref_genre is None when the catalog has no genre column
ApplyGenreBoost(rows, ref_genre, ref_subgenre) ==
    IF ref_genre = None THEN rows
    ELSE Bind(rows, LAMBDA rs :
      [ i \in 1..Len(rs) |->
          LET r == rs[i]
              g == IF StrLower(r.track.playlist_genre) = StrLower(ref_genre)
                   THEN DivT(r.similarity * GENRE_BOOST_FACTOR, 100)
                   ELSE r.similarity
              sg == IF ref_subgenre # None
                       /\ StrLower(r.track.playlist_subgenre) = StrLower(ref_subgenre)
                    THEN DivT(g * SUBGENRE_BOOST_FACTOR, 100)
                    ELSE g
          IN  [ r EXCEPT !.similarity = sg ] ])

\* _apply_genre_boost calls .lower() on the genre and on the subgenre of
\* the reference: a reference whose genre cell is empty, or whose subgenre
\* cell is empty beside a genre, makes it raise
GenreBoostError(ref_genre, ref_subgenre) ==
    IF ref_genre = None THEN None
    ELSE IF ref_genre = NaN THEN "AttributeError"
    ELSE IF ref_subgenre = NaN THEN "AttributeError"
    ELSE None

\* the error a similarity query ends in after it has found its reference
SimilarError(songs, idx, use_genre_boost) ==
    IF use_genre_boost
    THEN GenreBoostError(songs[idx].playlist_genre, songs[idx].playlist_subgenre)
    ELSE None

\* genre_info of _explain: the genre of the reference when the row's genre
\* reads the same in lower case (str() of an empty cell reads "nan")
GenreInfo(ref_genre, row) ==
    IF ref_genre # None
       /\ StrLower(row.track.playlist_genre) = StrLower(ref_genre)
    THEN ref_genre ELSE None

\* the explanation column of get_similar_songs
SimilarExplanations(songs, idx, rows) ==
    [ k \in 1..Len(rows) |->
        [ text |-> "Recommended because",
          genre_info |-> GenreInfo(songs[idx].playlist_genre, rows[k]) ] ]

\* the explanation column of get_similar_songs_by_name
ByNameExplanations(songs, idx, rows) ==
    [ k \in 1..Len(rows) |->
        [ text |-> "Similar to",
          matched_name |-> songs[idx].track_name,
          matched_artist |-> songs[idx].track_artist,
          genre_info |-> GenreInfo(songs[idx].playlist_genre, rows[k]) ] ]

\* how many of the rows are by the artist
ArtistCount(rows, artist) ==
    Cardinality({ i \in 1..Len(rows) : rows[i].track.track_artist = artist })

\* a variant that ends the loop at the first row over the cap
RECURSIVE DiversityLoopStopAtCap(_, _, _, _)
DiversityLoopStopAtCap(rows, k, selected, top_k) ==
    IF k > Len(rows) THEN selected
    ELSE IF ArtistCount(selected, rows[k].track.track_artist) < MAX_PER_ARTIST
         THEN Bind(Append(selected, rows[k]), LAMBDA sel :
                IF Len(sel) >= top_k THEN sel
                ELSE DiversityLoopStopAtCap(rows, k + 1, sel, top_k))
         ELSE selected

\* _apply_artist_diversity: the loop over the sorted rows; it looks at top_k
\* only after it has appended a row
RECURSIVE DiversityLoop(_, _, _, _)
DiversityLoop(rows, k, selected, top_k) ==
    IF k > Len(rows) THEN selected
    ELSE IF ArtistCount(selected, rows[k].track.track_artist) < MAX_PER_ARTIST
         THEN Bind(Append(selected, rows[k]), LAMBDA sel :
                IF Len(sel) >= top_k THEN sel
                ELSE DiversityLoop(rows, k + 1, sel, top_k))
         ELSE DiversityLoop(rows, k + 1, selected, top_k)

ApplyArtistDiversity(rows, top_k) ==
    Bind(SortDesc(rows), LAMBDA sorted : DiversityLoop(sorted, 1, << >>, top_k))

\* a variant that drops only the first row carrying the identifier
DropFirstReference(rows, track_id) ==
    Bind(rows, LAMBDA rs :
      RowsAt(rs, { i \in 1..Len(rs) :
                    \/ rs[i].track.track_id # track_id
                    \/ \E j \in 1..(i - 1) : rs[j].track.track_id = track_id }))

\* result[result["track_id"] != track_id]
DropReference(rows, track_id) ==
    Bind(rows, LAMBDA rs :
      RowsAt(rs, { i \in 1..Len(rs) : rs[i].track.track_id # track_id }))

\* a variant with keep="last"
DropDuplicatesKeepLast(rows) ==
    Bind(rows, LAMBDA rs :
      RowsAt(rs, { i \in 1..Len(rs) :
                    \A j \in (i + 1)..Len(rs) :
                        rs[j].track.track_id # rs[i].track.track_id }))

\* drop_duplicates(subset=["track_id"], keep="first")
DropDuplicates(rows) ==
    Bind(rows, LAMBDA rs :
      RowsAt(rs, { i \in 1..Len(rs) :
                    \A j \in 1..(i - 1) :
                        rs[j].track.track_id # rs[i].track.track_id }))

\* sims = cosine_similarity(base_vec, X)[0]
SimsTo(X, idx) == CosineSimilarity(X[idx], X)

\* the candidates of a similarity query with their scores, before the cut
\* to top_k: reference dropped, duplicates dropped, genre boost applied
ScoredCandidates(songs, X, idx, use_genre_boost) ==
    Bind(DropDuplicates(SortDesc(
             DropReference(WithSimilarity(songs, SimsTo(X, idx)),
                           songs[idx].track_id))),
         LAMBDA deduped :
           IF use_genre_boost
           THEN SortDesc(ApplyGenreBoost(deduped, songs[idx].playlist_genre,
                                         songs[idx].playlist_subgenre))
           ELSE deduped)

\* the rows a similarity query returns for the reference row idx
SimilarRows(songs, X, idx, top_k, use_genre_boost, use_artist_diversity) ==
    Bind(ScoredCandidates(songs, X, idx, use_genre_boost), LAMBDA scored :
      IF use_artist_diversity THEN ApplyArtistDiversity(scored, top_k)
      ELSE HeadRows(scored, top_k))

\* a variant that falls back to the first row for an unknown identifier
IdMatchesOrFirst(songs, track_id) ==
    IF \E i \in 1..Len(songs) : songs[i].track_id = track_id
    THEN { i \in 1..Len(songs) : songs[i].track_id = track_id }
    ELSE { 1 }

\* songs.index[songs["track_id"] == track_id]
IdMatches(songs, track_id) ==
    { i \in 1..Len(songs) : songs[i].track_id = track_id }

\* a variant that goes by containment alone
NameMatchesContainsOnly(songs, song_name) ==
    { i \in 1..Len(songs) :
        SeqContains(SeqLower(songs[i].track_name), SeqStrip(SeqLower(song_name))) }

\* a variant whose containment test is the wrong way round
NameMatchesSwapped(songs, song_name) ==
    LET song_name_lower == SeqStrip(SeqLower(song_name))
        exact == { i \in 1..Len(songs) :
                     SeqStrip(SeqLower(songs[i].track_name)) = song_name_lower }
    IN  IF exact # {} THEN exact
        ELSE { i \in 1..Len(songs) :
                 SeqContains(song_name_lower, SeqLower(songs[i].track_name)) }

\* the rows a name query matches: exact (lower-cased, stripped) first,
\* otherwise the rows whose lower-cased name contains the query
NameMatches(songs, song_name) ==
    LET song_name_lower == SeqStrip(SeqLower(song_name))
        exact == { i \in 1..Len(songs) :
                     SeqStrip(SeqLower(songs[i].track_name)) = song_name_lower }
    IN  IF exact # {} THEN exact
        ELSE { i \in 1..Len(songs) :
                 SeqContains(SeqLower(songs[i].track_name), song_name_lower) }

Min(S) == CHOOSE x \in S : \A y \in S : x <= y

\* ------------------------------------------------------------- the process
VARIABLES
    source,          \* the rows of data/songs.csv
    columns,         \* the columns of data/songs.csv
    SONGS_DF,        \* similarity_engine._SONGS_DF
    FEATURE_MATRIX,  \* similarity_engine._FEATURE_MATRIX
    SCALER,          \* feature_builder._SCALER
    pc,              \* "idle", or "returned" when a call has just ended
    request,         \* the call that has just ended
    outcome,         \* "ok", or the exception the call raised
    result,          \* the rows the call returned
    explanation,     \* the explanation column of those rows
    reference,       \* the row the call took as its reference (0: none)
    rebuilt,         \* the call ran build_feature_matrix
    loads,           \* how often load_song_data has read the source
    fits,            \* how often the scaler has been fitted
    instance,        \* which frame object _SONGS_DF holds: the number of
                     \* the read that made it (0: none)
    threads,         \* the requests running concurrently, each with its
                     \* position in the code and its locals
    service,         \* what the last call of backend/recommender_service.py
                     \* or of the text endpoint handed back
    audio            \* the audio endpoint: the position of its request,
                     \* the job polls, and the temporary files on disk

vars == << source, columns, SONGS_DF, FEATURE_MATRIX, SCALER, pc, request,
           outcome, result, explanation, reference, rebuilt, loads, fits,
           instance, threads, service, audio >>

\* the state of the backend layer
backend == << service, audio >>

\* the inputs of the calls
TopKs == 0..MaxTopK
Presets == { None, "default", "workout", "chill" }
MoodInputs == MoodNames \cup { "CALM", "party" }
TrackIdInputs == { TrackPool[i].track_id : i \in PoolIds } \cup { "no-such-id-000" }
NameInputs == { <<"a">>, <<"B">>, <<" ", "a">>, <<"a", "z">> }

NoRequest == [ op |-> "none" ]

\* the concurrent requests
Threads == 1..NumThreads

\* a request that has not been made yet
NoThread ==
    [ pc |-> "start", op |-> "none", preset |-> None, loaded |-> 0,
      inst |-> 0, X |-> << >>, outcome |-> None,
      overwrote |-> FALSE, built |-> FALSE ]

\* no call of the service layer yet
NoService == [ fn |-> "none" ]

\* no request of the audio kind yet, no temporary file on disk; HUME_API_KEY
\* is set
NoAudio ==
    [ pc |-> "idle", caller |-> None, api_key |-> TRUE, requests |-> 0,
      tmp |-> {}, tmp_path |-> 0, max_wait_time |-> 0, max_attempts |-> 0,
      attempt |-> 0, status |-> None, predictions |-> FALSE,
      emotions |-> << >>, error |-> None ]

Init ==
    /\ \E src \in Sources : source = src.rows /\ columns = src.columns
    /\ SONGS_DF = Unset
    /\ FEATURE_MATRIX = Unset
    /\ SCALER = Unset
    /\ pc = "idle"
    /\ request = NoRequest
    /\ outcome = None
    /\ result = << >>
    /\ explanation = << >>
    /\ reference = 0
    /\ rebuilt = FALSE
    /\ loads = 0
    /\ fits = 0
    /\ instance = 0
    /\ threads = [ t \in Threads |-> NoThread ]
    /\ service = NoService
    /\ audio = NoAudio

\* a variant that reads the source on every call
GetSongsDfAlwaysLoad ==
    Bind(LoadSongData(source, columns), LAMBDA loaded :
      IF loaded.error # None
      THEN [ cache |-> Unset, loads |-> loads + 1, instance |-> instance,
             error |-> loaded.error ]
      ELSE [ cache |-> Holding(loaded.df), loads |-> loads + 1,
             instance |-> loads + 1, error |-> None ])

\* _get_songs_df: the cache after the call, the reads of the source so far,
\* and the error raised when the load failed
GetSongsDf ==
    IF SONGS_DF # Unset
    THEN [ cache |-> SONGS_DF, loads |-> loads, instance |-> instance,
           error |-> None ]
    ELSE Bind(LoadSongData(source, columns), LAMBDA loaded :
           IF loaded.error # None
           THEN [ cache |-> Unset, loads |-> loads + 1, instance |-> instance,
                  error |-> loaded.error ]
           ELSE [ cache |-> Holding(loaded.df), loads |-> loads + 1,
                  instance |-> loads + 1, error |-> None ])

\* a variant that fits the scaler in every build
ScalerRefitEachBuild(df) ==
    [ scaler |-> Holding(ScalerFit(df)), fits |-> fits + 1 ]

\* build_feature_matrix: the scaler after the call (fitted by the first
\* build) and the fits so far
ScalerAfterBuild(df) ==
    IF SCALER = Unset
    THEN [ scaler |-> Holding(ScalerFit(df)), fits |-> fits + 1 ]
    ELSE [ scaler |-> SCALER, fits |-> fits ]

\* a variant that answers every preset from the cache once it is set
GetFeatureMatrixCacheFirst(songs, preset) ==
    IF FEATURE_MATRIX # Unset
    THEN [ X |-> FEATURE_MATRIX[1], matrix |-> FEATURE_MATRIX,
           scaler |-> SCALER, fits |-> fits, rebuilt |-> FALSE ]
    ELSE Bind(ScalerAfterBuild(songs), LAMBDA sc :
         Bind(BuildMatrix(songs, sc.scaler[1], preset), LAMBDA built :
           [ X |-> built,
             matrix |-> IF preset = None THEN Holding(built) ELSE Unset,
             scaler |-> sc.scaler, fits |-> sc.fits, rebuilt |-> TRUE ]))

\* a variant that stores whatever it builds in the cache
GetFeatureMatrixCachingPreset(songs, preset) ==
    IF preset # None \/ FEATURE_MATRIX = Unset
    THEN Bind(ScalerAfterBuild(songs), LAMBDA sc :
         Bind(BuildMatrix(songs, sc.scaler[1], preset), LAMBDA built :
           [ X |-> built, matrix |-> Holding(built),
             scaler |-> sc.scaler, fits |-> sc.fits, rebuilt |-> TRUE ]))
    ELSE [ X |-> FEATURE_MATRIX[1], matrix |-> FEATURE_MATRIX,
           scaler |-> SCALER, fits |-> fits, rebuilt |-> FALSE ]

\* _get_feature_matrix(preset): the matrix handed back (X), the two globals
\* after the call, and whether build_feature_matrix ran.  A preset is
\* rebuilt and not cached; the unweighted matrix is built once and cached.
GetFeatureMatrix(songs, preset) ==
    IF preset # None
    THEN Bind(ScalerAfterBuild(songs), LAMBDA sc :
           [ X |-> BuildMatrix(songs, sc.scaler[1], preset),
             matrix |-> FEATURE_MATRIX,
             scaler |-> sc.scaler, fits |-> sc.fits, rebuilt |-> TRUE ])
    ELSE IF FEATURE_MATRIX = Unset
    THEN Bind(ScalerAfterBuild(songs), LAMBDA sc :
         Bind(BuildMatrix(songs, sc.scaler[1], None), LAMBDA built :
           [ X |-> built, matrix |-> Holding(built),
             scaler |-> sc.scaler, fits |-> sc.fits, rebuilt |-> TRUE ]))
    ELSE [ X |-> FEATURE_MATRIX[1], matrix |-> FEATURE_MATRIX,
           scaler |-> SCALER, fits |-> fits, rebuilt |-> FALSE ]

\* the call ends in the error the catalog load raised
LoadFailed(error) ==
    /\ outcome' = error
    /\ result' = << >>
    /\ explanation' = << >>
    /\ reference' = 0
    /\ rebuilt' = FALSE
    /\ UNCHANGED << FEATURE_MATRIX, SCALER, fits >>

\* the part the two similarity queries share once the reference row is
\* found: the scores, the cuts, and the error of the genre boost
SimilarAnswer(songs, X, idx, top_k, use_genre_boost, use_artist_diversity) ==
    \E err \in { SimilarError(songs, idx, use_genre_boost) } :
        IF err # None
        THEN outcome' = err /\ result' = << >>
        ELSE /\ outcome' = "ok"
             /\ result' = SimilarRows(songs, X, idx, top_k, use_genre_boost,
                                      use_artist_diversity)

\* get_mood_recommendations(mood, top_k), from call to return
GetMoodRecommendations(mood, n) ==
    /\ pc = "idle"
    /\ \E s \in { GetSongsDf } :
         /\ s.loads <= MaxLoads
         /\ SONGS_DF' = s.cache
         /\ loads' = s.loads
         /\ instance' = s.instance
         /\ IF s.error # None THEN LoadFailed(s.error)
            ELSE \E m \in { GetFeatureMatrix(s.cache[1], None) } :
                   /\ FEATURE_MATRIX' = m.matrix
                   /\ SCALER' = m.scaler
                   /\ fits' = m.fits
                   /\ rebuilt' = m.rebuilt
                   /\ outcome' = "ok"
                   /\ reference' = 0
                   /\ result' = MoodRows(s.cache[1], m.X, m.scaler, mood, n)
                   /\ explanation' = MoodExplanations(mood, result')
    /\ request' = [ op |-> "mood", mood |-> mood, top_k |-> n ]
    /\ pc' = "returned"
    /\ UNCHANGED << source, columns, threads >>

\* recommend_by_mood(mood, n) -> get_mood_recommendations(mood, top_k=n)
RecommendByMood(mood, n) ==
    GetMoodRecommendations(mood, n) /\ UNCHANGED backend

\* get_similar_songs(track_id, top_k, ...), from call to return
GetSimilarSongs(track_id, n, preset, use_genre_boost, use_artist_diversity) ==
    /\ pc = "idle"
    /\ \E s \in { GetSongsDf } :
         /\ s.loads <= MaxLoads
         /\ SONGS_DF' = s.cache
         /\ loads' = s.loads
         /\ instance' = s.instance
         /\ IF s.error # None THEN LoadFailed(s.error)
            ELSE \E m \in { GetFeatureMatrix(s.cache[1], preset) } :
                 \E matches \in { IdMatches(s.cache[1], track_id) } :
                   /\ FEATURE_MATRIX' = m.matrix
                   /\ SCALER' = m.scaler
                   /\ fits' = m.fits
                   /\ rebuilt' = m.rebuilt
                   /\ IF matches = {}
                      THEN /\ outcome' = "KeyError"
                           /\ reference' = 0
                           /\ result' = << >>
                           /\ explanation' = << >>
                      ELSE /\ reference' = Min(matches)
                           /\ SimilarAnswer(s.cache[1], m.X, Min(matches), n,
                                            use_genre_boost, use_artist_diversity)
                           /\ explanation'
                                = SimilarExplanations(s.cache[1], Min(matches),
                                                      result')
    /\ request' = [ op |-> "similar", track_id |-> track_id, top_k |-> n,
                    preset |-> preset, use_genre_boost |-> use_genre_boost,
                    use_artist_diversity |-> use_artist_diversity ]
    /\ pc' = "returned"
    /\ UNCHANGED << source, columns, threads >>

\* recommend_similar_song(song_id, n, ...) -> get_similar_songs
RecommendSimilarSong(track_id, n, preset, use_genre_boost, use_artist_diversity) ==
    GetSimilarSongs(track_id, n, preset, use_genre_boost, use_artist_diversity)
    /\ UNCHANGED backend

\* get_similar_songs_by_name(song_name, top_k, ...), from call to return
GetSimilarSongsByName(song_name, n, preset, use_genre_boost, use_artist_diversity) ==
    /\ pc = "idle"
    /\ \E s \in { GetSongsDf } :
         /\ s.loads <= MaxLoads
         /\ SONGS_DF' = s.cache
         /\ loads' = s.loads
         /\ instance' = s.instance
         /\ IF s.error # None THEN LoadFailed(s.error)
            ELSE \E m \in { GetFeatureMatrix(s.cache[1], preset) } :
                 \E matches \in { NameMatches(s.cache[1], song_name) } :
                   /\ FEATURE_MATRIX' = m.matrix
                   /\ SCALER' = m.scaler
                   /\ fits' = m.fits
                   /\ rebuilt' = m.rebuilt
                   /\ IF matches = {}
                      THEN /\ outcome' = "ok"
                           /\ reference' = 0
                           /\ result' = << >>
                           /\ explanation' = << >>
                      ELSE /\ reference' = Min(matches)
                           /\ SimilarAnswer(s.cache[1], m.X, Min(matches), n,
                                            use_genre_boost, use_artist_diversity)
                           /\ explanation'
                                = ByNameExplanations(s.cache[1], Min(matches),
                                                     result')
    /\ request' = [ op |-> "by_name", song_name |-> song_name, top_k |-> n,
                    preset |-> preset, use_genre_boost |-> use_genre_boost,
                    use_artist_diversity |-> use_artist_diversity ]
    /\ pc' = "returned"
    /\ UNCHANGED << source, columns, threads >>

\* recommend_similar_by_name(song_name, n, ...) -> get_similar_songs_by_name
RecommendSimilarByName(song_name, n, preset, use_genre_boost, use_artist_diversity) ==
    GetSimilarSongsByName(song_name, n, preset, use_genre_boost,
                          use_artist_diversity)
    /\ UNCHANGED backend

\* the caller takes the result; the process is ready for the next call
Return ==
    /\ pc = "returned"
    /\ pc' = "idle"
    /\ request' = NoRequest
    /\ outcome' = None
    /\ result' = << >>
    /\ explanation' = << >>
    /\ reference' = 0
    /\ rebuilt' = FALSE
    /\ service' = NoService
    /\ UNCHANGED << source, columns, SONGS_DF, FEATURE_MATRIX, SCALER, loads,
                    fits, instance, threads, audio >>

Next ==
    \/ \E mood \in MoodInputs, n \in TopKs : RecommendByMood(mood, n)
    \/ \E id \in TrackIdInputs, n \in TopKs, p \in Presets, gb, ad \in BOOLEAN :
          RecommendSimilarSong(id, n, p, gb, ad)
    \/ \E nm \in NameInputs, n \in TopKs, p \in Presets, gb, ad \in BOOLEAN :
          RecommendSimilarByName(nm, n, p, gb, ad)
    \/ Return

Spec == Init /\ [][Next]_vars

\* ------------------------------------------- backend/recommender_service
EMOTION_TO_MOOD ==
    [ joy |-> "happy", happiness |-> "happy", amusement |-> "happy",
      excitement |-> "energetic", ecstasy |-> "energetic",
      interest |-> "energetic", surprise |-> "energetic",
      sadness |-> "sad", grief |-> "sad", disappointment |-> "sad",
      distress |-> "sad",
      anger |-> "angry", annoyance |-> "angry", contempt |-> "angry",
      disgust |-> "angry",
      calmness |-> "calm", contentment |-> "calm", relief |-> "calm",
      satisfaction |-> "calm", serenity |-> "calm",
      concentration |-> "focus",
      boredom |-> "mellow", tiredness |-> "mellow", contemplation |-> "mellow",
      nostalgia |-> "nostalgic",
      love |-> "romantic", desire |-> "romantic", admiration |-> "romantic",
      adoration |-> "romantic", romance |-> "romantic",
      anxiety |-> "calm", fear |-> "calm", horror |-> "calm",
      nervousness |-> "calm" ]

DEFAULT_MOOD == "calm"

\* limit, the default of get_recommendations, which the endpoints leave as
\* it is
DEFAULT_LIMIT == 10

\* emotion.lower().strip() on the emotion names the model uses
EmotionKey(emotion) ==
    CASE emotion = "Joy" -> "joy"
      [] emotion = "Sadness" -> "sadness"
      [] emotion = "Anger" -> "anger"
      [] emotion = "Neutral" -> "neutral"
      [] emotion = " Nostalgia " -> "nostalgia"
      [] emotion = "Concentration" -> "concentration"
      [] OTHER -> StrLower(emotion)

\* _map_emotion_to_mood
MapEmotionToMood(emotion) ==
    IF EmotionKey(emotion) \in DOMAIN EMOTION_TO_MOOD
    THEN EMOTION_TO_MOOD[EmotionKey(emotion)]
    ELSE DEFAULT_MOOD

\* a value of a record: a string, a float (finite, or "nan", "inf",
\* "-inf"), or the explicit null
Cell(kind, s, n) == [ kind |-> kind, s |-> s, n |-> n ]

\* the value of a cell of a string column: an empty cell is the float nan
StringCell(v) == IF v = NaN THEN Cell("float", "nan", 0) ELSE Cell("str", v, 0)

\* the columns of the frame a record has a key for
FrameKeys == (AllColumns \ MissingAnyColumn(columns))

\* Series.to_dict() of a row of the frame
SongDict(track) ==
    [ k \in FrameKeys |->
        IF k \in FeatureNames
        THEN Cell("float", track.special[k], RawFeature(track, k).n)
        ELSE CASE k = "track_id" -> StringCell(track.track_id)
               [] k = "track_name" -> StringCell(track.track_name)
               [] k = "track_artist" -> StringCell(track.track_artist)
               [] k = "playlist_genre" -> StringCell(track.playlist_genre)
               [] k = "playlist_subgenre" -> StringCell(track.playlist_subgenre)
               [] k = "track_album_release_date" ->
                    IF track.year = 0 THEN Cell("float", "nan", 0)
                    ELSE Cell("str", "date", track.year) ]

\* df.to_dict(orient="records") of an engine result: the columns of the
\* frame, the similarity and the explanation
ToRecords(rows, explanations) ==
    [ i \in 1..Len(rows) |->
        [ k \in FrameKeys \cup { "similarity", "explanation" } |->
            IF k = "similarity" THEN Cell("float", "finite", rows[i].similarity)
            ELSE IF k = "explanation" THEN Cell("str", explanations[i], 0)
            ELSE SongDict(rows[i].track)[k] ] ]

\* a variant that looks for nan alone
CleanNanOnly(rec) ==
    [ k \in DOMAIN rec |->
        IF rec[k].kind = "float" /\ rec[k].s = "nan"
        THEN Cell("null", "", 0) ELSE rec[k] ]

\* the loop over rec.items(): a float that is nan, inf or -inf becomes None
CleanRecord(rec) ==
    [ k \in DOMAIN rec |->
        IF rec[k].kind = "float" /\ rec[k].s \in { "nan", "inf", "-inf" }
        THEN Cell("null", "", 0) ELSE rec[k] ]

\* a variant that lets a KeyError through
CaughtButKeyError(exception) ==
    IF exception = "KeyError" THEN exception ELSE None

\* except Exception: what the caller of a service function sees raised
Caught(exception) == None

\* the records a service function hands back for the engine call just made:
\* the empty list when the engine raised
ServiceRecords ==
    IF outcome' # "ok" THEN << >>
    ELSE [ i \in 1..Len(result') |->
             CleanRecord(ToRecords(result', explanation')[i]) ]

\* what the engine call just made makes the service function raise
ServiceRaised == IF outcome' # "ok" THEN Caught(outcome') ELSE None

\* get_recommendations(top_emotion, all_emotions, limit)
ServiceRecommendations(top_emotion, limit) ==
    /\ GetMoodRecommendations(MapEmotionToMood(top_emotion), limit)
    /\ service' = [ fn |-> "get_recommendations", top_emotion |-> top_emotion,
                    value |-> ServiceRecords, raised |-> ServiceRaised ]
    /\ UNCHANGED audio

\* get_similar_songs_by_name(song_name, limit, ...) of the service
ServiceSimilarByName(song_name, limit, preset, use_genre_boost, use_artist_diversity) ==
    /\ GetSimilarSongsByName(song_name, limit, preset, use_genre_boost,
                             use_artist_diversity)
    /\ service' = [ fn |-> "get_similar_songs_by_name",
                    value |-> ServiceRecords, raised |-> ServiceRaised ]
    /\ UNCHANGED audio

\* get_similar_songs_by_track_id(track_id, limit, ...)
ServiceSimilarByTrackId(track_id, limit, preset, use_genre_boost, use_artist_diversity) ==
    /\ GetSimilarSongs(track_id, limit, preset, use_genre_boost,
                       use_artist_diversity)
    /\ service' = [ fn |-> "get_similar_songs_by_track_id",
                    value |-> ServiceRecords, raised |-> ServiceRaised ]
    /\ UNCHANGED audio

\* get_song_by_track_id(track_id): the first row of that id as a record, or
\* None (Unset) when there is none or the load failed
ServiceSongByTrackId(track_id) ==
    /\ pc = "idle"
    /\ \E s \in { GetSongsDf } :
         /\ s.loads <= MaxLoads
         /\ SONGS_DF' = s.cache
         /\ loads' = s.loads
         /\ instance' = s.instance
         /\ outcome' = IF s.error # None THEN s.error ELSE "ok"
         /\ \E matches \in { IF s.error # None THEN {}
                               ELSE IdMatches(s.cache[1], track_id) } :
              service' =
                [ fn |-> "get_song_by_track_id",
                  value |-> IF matches = {} THEN Unset
                            ELSE Holding(CleanRecord(
                                   SongDict(s.cache[1][Min(matches)]))),
                  raised |-> ServiceRaised ]
    /\ request' = [ op |-> "lookup", track_id |-> track_id, top_k |-> 1 ]
    /\ pc' = "returned"
    /\ result' = << >>
    /\ explanation' = << >>
    /\ reference' = 0
    /\ rebuilt' = FALSE
    /\ UNCHANGED << source, columns, FEATURE_MATRIX, SCALER, fits, threads,
                    audio >>

\* ------------------------------------------- backend/main: the text endpoint
\* the emotion the placeholder heuristic reads from a text
TextEmotion(text) ==
    CASE text = "so glad" -> "Joy"
      [] text = "feeling down" -> "Sadness"
      [] text = "i am mad" -> "Anger"
      [] OTHER -> "Neutral"

\* recommend_from_text(request): a mood is taken as the emotion, otherwise
\* the text is read; neither of them is HTTP 400
RecommendFromText(text, mood) ==
    IF mood = None /\ text = None
    THEN /\ pc = "idle"
         /\ pc' = "returned"
         /\ request' = [ op |-> "text", top_k |-> DEFAULT_LIMIT ]
         /\ service' = [ fn |-> "recommend_from_text", mood |-> mood,
                         value |-> << >>, raised |-> "HTTP 400" ]
         /\ UNCHANGED << source, columns, SONGS_DF, FEATURE_MATRIX, SCALER,
                         outcome, result, explanation, reference, rebuilt,
                         loads, fits, instance, threads, audio >>
    ELSE \E top_emotion \in { IF mood # None THEN mood ELSE TextEmotion(text) } :
         /\ GetMoodRecommendations(MapEmotionToMood(top_emotion), DEFAULT_LIMIT)
         /\ service' = [ fn |-> "recommend_from_text", mood |-> mood,
                         top_emotion |-> top_emotion,
                         value |-> ServiceRecords, raised |-> ServiceRaised ]
         /\ UNCHANGED audio

\* the limits the service calls are made with
Limits == { 0, 2, DEFAULT_LIMIT }

\* the sources of the service calls: the catalog with empty cells, a
\* catalog without them, and the sources that lack columns
ServiceInit ==
    /\ Init
    /\ \/ columns # AllColumns
       \/ source = MissingValueRows
       \/ source = [ i \in 1..MaxRows |-> TrackPool[i] ]

ServiceNext ==
    \/ \E e \in { "Joy", " Nostalgia ", "Concentration", "Neutral" },
          n \in Limits : ServiceRecommendations(e, n)
    \/ \E nm \in NameInputs, n \in Limits, p \in { None, "workout" },
          gb, ad \in BOOLEAN : ServiceSimilarByName(nm, n, p, gb, ad)
    \/ \E id \in TrackIdInputs, n \in Limits, p \in { None, "workout" },
          gb, ad \in BOOLEAN : ServiceSimilarByTrackId(id, n, p, gb, ad)
    \/ \E id \in TrackIdInputs : ServiceSongByTrackId(id)
    \/ \E text \in { None, "so glad", "feeling down", "i am mad", "hello" },
          mood \in MoodNames \cup { None, "party" } :
          RecommendFromText(text, mood)
    \/ Return

ServiceSpec == ServiceInit /\ [][ServiceNext]_vars

\* ------------------------------ backend/emotion_service and the audio endpoint
\* One audio request at a time.  A step is the code between two points
\* where the coroutine waits: the read of the upload, a request to the
\* job API, the sleep between two polls.

\* max_wait_time: int = 120
DEFAULT_MAX_WAIT == 120

\* the seconds between two polls: max_wait_time // 3, asyncio.sleep(3)
PollSeconds == 3

\* how many audio requests the process serves
MaxRequests == 2

\* the max_wait_time values analyze_audio is called with directly
MaxWaitTimes == { 0, 2, 3, 7, DEFAULT_MAX_WAIT }

\* what a poll of the job can answer: a status, or an HTTP error status
PollAnswers == { "QUEUED", "IN_PROGRESS", "COMPLETED", "FAILED", "HTTPError" }

\* a variant that polls once more
MaxAttemptsPlusOne(max_wait_time) == max_wait_time \div PollSeconds + 1

\* max_attempts = max_wait_time // 3
MaxAttempts(max_wait_time) == max_wait_time \div PollSeconds

\* a step of the audio request leaves the recommender alone
AudioStep(a) ==
    /\ audio' = a
    /\ UNCHANGED << source, columns, SONGS_DF, FEATURE_MATRIX, SCALER, pc,
                    request, outcome, result, explanation, reference, rebuilt,
                    loads, fits, instance, threads, service >>

\* a call begins with the locals of the previous one gone
NewCall(caller) ==
    [ NoAudio EXCEPT !.caller = caller, !.api_key = audio.api_key,
                     !.requests = audio.requests + 1, !.tmp = audio.tmp ]

\* recommend_from_audio(file) up to the read of the upload: a file that does
\* not look like audio is HTTP 400, otherwise NamedTemporaryFile(delete=False)
\* has made a file
RecommendFromAudio(looks_like_audio) ==
    /\ audio.pc = "idle"
    /\ audio.requests < MaxRequests
    /\ AudioStep(IF looks_like_audio
                 THEN [ NewCall("endpoint") EXCEPT
                          !.pc = "created",
                          !.tmp = audio.tmp \cup { audio.requests + 1 } ]
                 ELSE [ NewCall("endpoint") EXCEPT
                          !.pc = "done", !.error = "HTTP 400" ])

\* content = await file.read(); tmp_file.write(content); tmp_path = ...:
\* the with block closes the file; when the read or the write raises, the
\* exception leaves the handler before the try statement is entered
SaveUpload(saved) ==
    /\ audio.pc = "created"
    /\ AudioStep(IF saved
                 THEN [ audio EXCEPT !.pc = "saved",
                                     !.tmp_path = audio.requests ]
                 ELSE [ audio EXCEPT !.pc = "done", !.error = "OSError" ])

\* analyze_audio(audio_path, max_wait_time) up to the first poll: the key
\* test, the start of the job, max_attempts
AnalyzeAudio(max_wait_time, job_started) ==
    /\ \/ audio.pc = "saved" /\ max_wait_time = DEFAULT_MAX_WAIT
       \/ audio.pc = "idle" /\ audio.requests < MaxRequests
    /\ \E a \in { IF audio.pc = "idle" THEN NewCall("direct") ELSE audio } :
         AudioStep(
           IF ~a.api_key
           THEN [ a EXCEPT !.pc = "analyzed",
                           !.error = "HUME API key not configured" ]
           ELSE IF ~job_started
           THEN [ a EXCEPT !.pc = "analyzed", !.error = "Start job failed" ]
           ELSE [ a EXCEPT !.pc = "poll", !.max_wait_time = max_wait_time,
                           !.max_attempts = MaxAttempts(max_wait_time) ])

\* one pass of the for loop: _get_job_details, then break, raise or sleep
PollJob(answer) ==
    /\ audio.pc = "poll"
    /\ audio.attempt < audio.max_attempts
    /\ AudioStep(
         IF answer = "HTTPError"
         THEN [ audio EXCEPT !.pc = "analyzed", !.attempt = @ + 1,
                             !.error = "HTTPError" ]
         ELSE IF answer = "COMPLETED"
         THEN [ audio EXCEPT !.pc = "predictions", !.attempt = @ + 1,
                             !.status = answer ]
         ELSE IF answer = "FAILED"
         THEN [ audio EXCEPT !.pc = "analyzed", !.attempt = @ + 1,
                             !.status = answer, !.error = "Job failed" ]
         ELSE [ audio EXCEPT !.attempt = @ + 1, !.status = answer ])

\* the else of the for loop: range(max_attempts) is used up
TimedOut ==
    /\ audio.pc = "poll"
    /\ audio.attempt >= audio.max_attempts
    /\ AudioStep([ audio EXCEPT
                     !.pc = "analyzed",
                     !.error = "Timed out waiting for job to complete" ])

\* _get_job_predictions and _extract_emotions_from_prosody: the names by
\* descending score, or the fallback when there is no prosody
GetJobPredictions(fetched, names) ==
    /\ audio.pc = "predictions"
    /\ AudioStep(
         IF ~fetched
         THEN [ audio EXCEPT !.pc = "analyzed", !.predictions = TRUE,
                             !.error = "HTTPError" ]
         ELSE [ audio EXCEPT !.pc = "analyzed", !.predictions = TRUE,
                             !.emotions = IF names = << >> THEN << "Calmness" >>
                                          ELSE names ])

\* the handler after analyze_audio has returned: top_emotion =
\* emotions[0]["name"], get_recommendations(top_emotion, emotions)
AudioRecommend ==
    /\ audio.pc = "analyzed"
    /\ audio.caller = "endpoint"
    /\ audio.error = None
    /\ GetMoodRecommendations(MapEmotionToMood(audio.emotions[1]),
                              DEFAULT_LIMIT)
    /\ service' = [ fn |-> "recommend_from_audio",
                    top_emotion |-> audio.emotions[1],
                    value |-> ServiceRecords, raised |-> ServiceRaised ]
    /\ audio' = [ audio EXCEPT !.pc = "finally" ]

\* finally: os.unlink(tmp_path) when the path exists; it runs when the try
\* block ends, with the response or with the exception of analyze_audio
AudioFinally ==
    /\ \/ audio.pc = "finally"
       \/ audio.pc = "analyzed" /\ audio.caller = "endpoint"
            /\ audio.error # None
    /\ AudioStep([ audio EXCEPT !.pc = "done",
                                !.tmp = @ \ { audio.tmp_path } ])

\* the request is answered, or the direct call has returned or raised
AudioEnd ==
    /\ \/ audio.pc = "done"
       \/ audio.pc = "analyzed" /\ audio.caller = "direct"
    /\ AudioStep([ audio EXCEPT !.pc = "idle" ])

\* one catalog; the key is set or not when the service object is made
AudioInit ==
    /\ source = [ i \in 1..MaxRows |-> TrackPool[i] ]
    /\ columns = AllColumns
    /\ SONGS_DF = Unset
    /\ FEATURE_MATRIX = Unset
    /\ SCALER = Unset
    /\ pc = "idle"
    /\ request = NoRequest
    /\ outcome = None
    /\ result = << >>
    /\ explanation = << >>
    /\ reference = 0
    /\ rebuilt = FALSE
    /\ loads = 0
    /\ fits = 0
    /\ instance = 0
    /\ threads = [ t \in Threads |-> NoThread ]
    /\ service = NoService
    /\ \E key \in BOOLEAN : audio = [ NoAudio EXCEPT !.api_key = key ]

AudioNext ==
    \/ \E looks_like_audio \in BOOLEAN : RecommendFromAudio(looks_like_audio)
    \/ \E saved \in BOOLEAN : SaveUpload(saved)
    \/ \E w \in MaxWaitTimes, job_started \in BOOLEAN :
          AnalyzeAudio(w, job_started)
    \/ \E answer \in PollAnswers : PollJob(answer)
    \/ TimedOut
    \/ \E fetched \in BOOLEAN,
          names \in { << >>, << "Sadness" >>, << "Joy", "Anger" >> } :
          GetJobPredictions(fetched, names)
    \/ AudioRecommend
    \/ AudioFinally
    \/ AudioEnd
    \/ Return

\* every request to the job API is answered and the event loop resumes the
\* coroutine after each sleep: a step of analyze_audio that can be taken
\* is taken
AudioSpec ==
    /\ AudioInit
    /\ [][AudioNext]_vars
    /\ WF_vars(\/ \E answer \in PollAnswers : PollJob(answer)
               \/ TimedOut
               \/ \E fetched \in BOOLEAN, names \in { << >> } :
                     GetJobPredictions(fetched, names))

\* ------------------------------------------------- concurrent requests
\* Requests that run in threads of one process (one Streamlit session each)
\* share the module globals.  Each of them runs the code below with no
\* lock; a step is one read or write of a global.

\* the operations the concurrent requests make
ThreadOps ==
    { [ op |-> "mood", preset |-> None ],
      [ op |-> "similar", preset |-> None ],
      [ op |-> "similar", preset |-> "workout" ] }

\* _SCALER = StandardScaler(): a scaler with no fit parameters
Unfitted ==
    [ n |-> 0, sum |-> [ f \in FeatureNames |-> 0 ],
      nsigma |-> [ f \in FeatureNames |-> 0 ] ]

\* check_is_fitted
IsFitted(sc) == sc.n > 0

\* what a step of a request leaves alone in any case
SequentialUnchanged ==
    UNCHANGED << source, columns, pc, request, outcome, result, explanation,
                 reference, rebuilt, service, audio >>

\* the request t goes to the position next with its locals changed as in upd
Goto(t, upd) == threads' = [ threads EXCEPT ![t] = upd ]

\* a request arrives
ThreadCall(t, o) ==
    /\ threads[t].pc = "start"
    /\ Goto(t, [ threads[t] EXCEPT !.pc = "songs_test", !.op = o.op,
                                   !.preset = o.preset ])
    /\ SequentialUnchanged
    /\ UNCHANGED << SONGS_DF, FEATURE_MATRIX, SCALER, loads, fits, instance >>

\* _get_songs_df: if _SONGS_DF is None
ThreadSongsTest(t) ==
    /\ threads[t].pc = "songs_test"
    /\ Goto(t, [ threads[t] EXCEPT
                   !.pc = IF SONGS_DF = Unset THEN "songs_load"
                          ELSE "songs_return" ])
    /\ SequentialUnchanged
    /\ UNCHANGED << SONGS_DF, FEATURE_MATRIX, SCALER, loads, fits, instance >>

\* _get_songs_df: load_song_data() reads the source into a new frame
ThreadSongsLoad(t) ==
    /\ threads[t].pc = "songs_load"
    /\ loads' = loads + 1
    /\ Goto(t, [ threads[t] EXCEPT !.pc = "songs_store", !.loaded = loads + 1 ])
    /\ SequentialUnchanged
    /\ UNCHANGED << SONGS_DF, FEATURE_MATRIX, SCALER, fits, instance >>

\* _get_songs_df: _SONGS_DF = the frame just read
ThreadSongsStore(t) ==
    /\ threads[t].pc = "songs_store"
    /\ SONGS_DF' = Holding(LoadSongData(source, columns).df)
    /\ instance' = threads[t].loaded
    /\ Goto(t, [ threads[t] EXCEPT !.pc = "songs_return",
                                   !.overwrote = (SONGS_DF # Unset) ])
    /\ SequentialUnchanged
    /\ UNCHANGED << FEATURE_MATRIX, SCALER, loads, fits >>

\* _get_songs_df: return _SONGS_DF
ThreadSongsReturn(t) ==
    /\ threads[t].pc = "songs_return"
    /\ Goto(t, [ threads[t] EXCEPT !.pc = "matrix_test", !.inst = instance ])
    /\ SequentialUnchanged
    /\ UNCHANGED << SONGS_DF, FEATURE_MATRIX, SCALER, loads, fits, instance >>

\* _get_feature_matrix: a preset is built; without preset the cache is
\* looked at, and returned when set
ThreadMatrixTest(t) ==
    /\ threads[t].pc = "matrix_test"
    /\ IF threads[t].preset # None \/ FEATURE_MATRIX = Unset
       THEN Goto(t, [ threads[t] EXCEPT !.pc = "build_test" ])
       ELSE Goto(t, [ threads[t] EXCEPT !.pc = "finish",
                                        !.X = FEATURE_MATRIX[1] ])
    /\ SequentialUnchanged
    /\ UNCHANGED << SONGS_DF, FEATURE_MATRIX, SCALER, loads, fits, instance >>

\* build_feature_matrix: if _SCALER is None
ThreadBuildTest(t) ==
    /\ threads[t].pc = "build_test"
    /\ Goto(t, [ threads[t] EXCEPT
                   !.pc = IF SCALER = Unset THEN "scaler_new" ELSE "transform" ])
    /\ SequentialUnchanged
    /\ UNCHANGED << SONGS_DF, FEATURE_MATRIX, SCALER, loads, fits, instance >>

\* build_feature_matrix: _SCALER = StandardScaler()
ThreadScalerNew(t) ==
    /\ threads[t].pc = "scaler_new"
    /\ SCALER' = Holding(Unfitted)
    /\ Goto(t, [ threads[t] EXCEPT !.pc = "scaler_fit" ])
    /\ SequentialUnchanged
    /\ UNCHANGED << SONGS_DF, FEATURE_MATRIX, loads, fits, instance >>

\* build_feature_matrix: X_scaled = _SCALER.fit_transform(X), then the
\* weights; it fits the scaler _SCALER holds now
ThreadScalerFit(t) ==
    /\ threads[t].pc = "scaler_fit"
    /\ \E sc \in { ScalerFit(SONGS_DF[1]) } :
         /\ SCALER' = Holding(sc)
         /\ Goto(t, [ threads[t] EXCEPT
                        !.pc = IF threads[t].preset = None THEN "matrix_store"
                               ELSE "finish",
                        !.X = BuildMatrix(SONGS_DF[1], sc, threads[t].preset) ])
    /\ fits' = fits + 1
    /\ SequentialUnchanged
    /\ UNCHANGED << SONGS_DF, FEATURE_MATRIX, loads, instance >>

\* build_feature_matrix: X_scaled = _SCALER.transform(X), then the weights;
\* transform raises NotFittedError on a scaler that has not been fitted
ThreadTransform(t) ==
    /\ threads[t].pc = "transform"
    /\ IF IsFitted(SCALER[1])
       THEN Goto(t, [ threads[t] EXCEPT
                        !.pc = IF threads[t].preset = None THEN "matrix_store"
                               ELSE "finish",
                        !.X = BuildMatrix(SONGS_DF[1], SCALER[1],
                                          threads[t].preset) ])
       ELSE Goto(t, [ threads[t] EXCEPT !.pc = "done",
                                        !.outcome = "NotFittedError" ])
    /\ SequentialUnchanged
    /\ UNCHANGED << SONGS_DF, FEATURE_MATRIX, SCALER, loads, fits, instance >>

\* _get_feature_matrix: _FEATURE_MATRIX = X; return _FEATURE_MATRIX
ThreadMatrixStore(t) ==
    /\ threads[t].pc = "matrix_store"
    /\ FEATURE_MATRIX' = Holding(threads[t].X)
    /\ Goto(t, [ threads[t] EXCEPT !.pc = "finish", !.built = TRUE ])
    /\ SequentialUnchanged
    /\ UNCHANGED << SONGS_DF, SCALER, loads, fits, instance >>

\* the rest of the operation: a mood query transforms the prototype with
\* the scaler _SCALER holds now; then the rows are scored and returned
ThreadFinish(t) ==
    /\ threads[t].pc = "finish"
    /\ Goto(t, [ threads[t] EXCEPT
                   !.pc = "done",
                   !.outcome = IF /\ threads[t].op = "mood"
                                  /\ SCALER # Unset
                                  /\ ~IsFitted(SCALER[1])
                               THEN "NotFittedError" ELSE "ok" ])
    /\ SequentialUnchanged
    /\ UNCHANGED << SONGS_DF, FEATURE_MATRIX, SCALER, loads, fits, instance >>

\* the requests start together on a process that has made no call, with a
\* source of two rows and all columns
ConcurrentInit ==
    /\ Init
    /\ columns = AllColumns
    /\ Len(source) = 2
    /\ source[1] = TrackPool[1]

ConcurrentNext ==
    \E t \in Threads :
        \/ \E o \in ThreadOps : ThreadCall(t, o)
        \/ ThreadSongsTest(t)
        \/ ThreadSongsLoad(t)
        \/ ThreadSongsStore(t)
        \/ ThreadSongsReturn(t)
        \/ ThreadMatrixTest(t)
        \/ ThreadBuildTest(t)
        \/ ThreadScalerNew(t)
        \/ ThreadScalerFit(t)
        \/ ThreadTransform(t)
        \/ ThreadMatrixStore(t)
        \/ ThreadFinish(t)

ConcurrentSpec == ConcurrentInit /\ [][ConcurrentNext]_vars

\* ------------------------------------------------------------ observations
\* a similarity query (by id or by name) has returned rows for a reference
SimilarReturned ==
    /\ pc = "returned"
    /\ request.op \in { "similar", "by_name" }
    /\ outcome = "ok"

\* the identifiers of the returned rows
ResultIds == [ k \in 1..Len(result) |-> result[k].track.track_id ]

\* the frame the calls work on, once loaded
Frame == SONGS_DF[1]

\* the catalog row the last similarity query took as its reference
RefIdx == reference

\* the cosine similarity of every catalog row to that reference, under the
\* preset of the query: the score a row has before any boost
BaseSims ==
    Bind(ScalerFit(Frame), LAMBDA sc :
      SimsTo(BuildMatrix(Frame, sc, request.preset), RefIdx))

\* the score catalog row j is reported with by the last similarity query
WouldReport(base, j) ==
    IF request.use_genre_boost
    THEN ApplyGenreBoost(<< [ idx |-> j, track |-> Frame[j],
                             similarity |-> base[j] ] >>,
                         Frame[RefIdx].playlist_genre,
                         Frame[RefIdx].playlist_subgenre)[1].similarity
    ELSE base[j]

\* ------------------------------------------------------------------ claims

\* C1: a query by track id never returns a row carrying the reference
\* track_id, and no track_id occurs in two returned rows.
C1_ReferenceExcludedIdsDistinct ==
    (pc = "returned" /\ request.op = "similar" /\ outcome = "ok") =>
        /\ \A k \in 1..Len(result) : ResultIds[k] # request.track_id
        /\ \A k, l \in 1..Len(result) : k # l => ResultIds[k] # ResultIds[l]

\* the catalog holds the reference id twice and another id twice, and rows
\* came back
C1_Witness ==
    /\ pc = "returned" /\ request.op = "similar" /\ outcome = "ok"
    /\ Len(result) >= 2
    /\ \E i, j \in 1..Len(Frame) :
          i # j /\ Frame[i].track_id = Frame[j].track_id
               /\ Frame[i].track_id # request.track_id
               /\ \E k \in 1..Len(result) : ResultIds[k] = Frame[i].track_id

\* C2: every operation returns at most the requested number of rows.
C2_AtMostRequestedCount ==
    pc = "returned" => Len(result) <= request.top_k

\* C3: the returned rows are in non-increasing order of the reported score.
C3_SortedByReportedScore ==
    (pc = "returned" /\ outcome = "ok") =>
        \A k \in 1..(Len(result) - 1) :
            result[k].similarity >= result[k + 1].similarity

\* the genre boost has lifted a row above one that had the higher cosine
C3_Witness ==
    /\ SimilarReturned /\ request.use_genre_boost /\ Len(result) >= 2
    /\ \E base \in { BaseSims } :
       \E k \in 1..(Len(result) - 1) :
          /\ base[result[k].idx] < base[result[k + 1].idx]
          /\ result[k].similarity > result[k + 1].similarity

\* C4: the rows of a mood query carry pairwise distinct track_ids.
C4_MoodIdsDistinct ==
    (pc = "returned" /\ request.op = "mood") =>
        \A k, l \in 1..Len(result) : k # l => ResultIds[k] # ResultIds[l]

\* C5: with use_artist_diversity no artist occurs in more than two rows.
C5_ArtistCap ==
    (SimilarReturned /\ request.use_artist_diversity) =>
        \A k \in 1..Len(result) :
            ArtistCount(result, result[k].track.track_artist) <= 2

\* three candidates with distinct ids share an artist, three rows were asked
\* for, and two of that artist came back
C5_Witness ==
    /\ SimilarReturned /\ request.use_artist_diversity /\ request.top_k >= 3
    /\ result # << >>
    /\ \E a \in { Frame[i].track_artist : i \in 1..Len(Frame) } :
          /\ Cardinality({ Frame[i].track_id : i \in
                             { j \in 1..Len(Frame) :
                                 /\ Frame[j].track_artist = a
                                 /\ Frame[j].track_id # Frame[RefIdx].track_id } })
                >= 3
          /\ ArtistCount(result, a) = 2

\* C6: with use_genre_boost a candidate of the reference's genre is reported
\* with a score no lower than its score without the boost.
C6_BoostNeverLowersSameGenre ==
    (SimilarReturned /\ request.use_genre_boost /\ result # << >>) =>
        \A base \in { BaseSims } :
        \A k \in 1..Len(result) :
            result[k].track.playlist_genre = Frame[RefIdx].playlist_genre
                => result[k].similarity >= base[result[k].idx]

\* C7: with use_genre_boost a candidate of another genre is reported with
\* exactly its score without the boost.
C7_OtherGenreUnchanged ==
    (SimilarReturned /\ request.use_genre_boost /\ result # << >>) =>
        \A base \in { BaseSims } :
        \A k \in 1..Len(result) :
            StrLower(result[k].track.playlist_genre)
                    # StrLower(Frame[RefIdx].playlist_genre)
                => result[k].similarity = base[result[k].idx]

\* C8 as stated: the row kept for a track_id is reported with a score no
\* lower than the score any other catalog row of that track_id would have
\* been reported with.
C8_KeptRowHasHighestReportedScore ==
    (SimilarReturned /\ result # << >>) =>
        \A base \in { BaseSims } :
        \A k \in 1..Len(result), j \in 1..Len(Frame) :
            Frame[j].track_id = ResultIds[k]
                => result[k].similarity >= WouldReport(base, j)

\* C8 as amended: the row kept for a track_id is one of highest cosine
\* similarity to the reference, taken before any genre boost; its reported
\* score is that similarity with the boost of its own genre and subgenre.
C8_KeptRowHasHighestCosine ==
    (SimilarReturned /\ result # << >>) =>
        \A base \in { BaseSims } :
        \A k \in 1..Len(result), j \in 1..Len(Frame) :
            Frame[j].track_id = ResultIds[k]
                => /\ base[result[k].idx] >= base[j]
                   /\ result[k].similarity = WouldReport(base, result[k].idx)

\* a duplicate that lost on cosine would have been reported higher
C8_Witness ==
    /\ SimilarReturned /\ request.use_genre_boost /\ result # << >>
    /\ \E base \in { BaseSims } :
       \E k \in 1..Len(result), j \in 1..Len(Frame) :
          /\ Frame[j].track_id = ResultIds[k]
          /\ base[j] < base[result[k].idx]
          /\ WouldReport(base, j) > result[k].similarity

\* the standardized matrix of a frame without weights
UnweightedMatrix(frame) ==
    Bind(ScalerFit(frame), LAMBDA sc : BuildMatrix(frame, sc, None))

\* the step is a query by a track id that no catalog row carries
UnknownIdStep ==
    /\ pc = "idle" /\ pc' = "returned"
    /\ request'.op = "similar"
    /\ MissingColumns(columns) = {}
    /\ \A i \in 1..Len(source) : source[i].track_id # request'.track_id

\* C9 as stated: a query by an unknown track id raises, returns nothing, and
\* leaves the cached catalog and the cached matrix as they were.
C9_UnknownIdRaisesCachesSame ==
    [][ UnknownIdStep =>
          /\ outcome' = "KeyError" /\ result' = << >>
          /\ SONGS_DF' = SONGS_DF
          /\ FEATURE_MATRIX' = FEATURE_MATRIX ]_vars

\* C9 as amended: the query raises and returns nothing; a cache that was set
\* stays as it was, and a cache that was unset is filled as by any first
\* call: the catalog always, the unweighted matrix when no preset is given.
C9_UnknownIdRaisesCachesOnlyFilled ==
    [][ UnknownIdStep =>
          /\ outcome' = "KeyError" /\ result' = << >>
          /\ SONGS_DF # Unset => SONGS_DF' = SONGS_DF
          /\ FEATURE_MATRIX # Unset => FEATURE_MATRIX' = FEATURE_MATRIX
          /\ SONGS_DF' = Holding(LoadSongData(source, columns).df)
          /\ (FEATURE_MATRIX = Unset /\ request'.preset # None)
                => FEATURE_MATRIX' = Unset
          /\ (FEATURE_MATRIX = Unset /\ request'.preset = None)
                => FEATURE_MATRIX'
                     = Holding(UnweightedMatrix(source)) ]_vars

\* a query by an unknown id has raised, with the caches filled
C9_Witness ==
    /\ pc = "returned" /\ request.op = "similar" /\ outcome = "KeyError"
    /\ \A i \in 1..Len(source) : source[i].track_id # request.track_id
    /\ FEATURE_MATRIX # Unset

\* C10 as stated: a name that no track_name equals or contains, compared
\* without regard to case, yields an empty result and no error.
C10_UnmatchedNameEmpty ==
    ( /\ pc = "returned" /\ request.op = "by_name"
      /\ MissingColumns(columns) = {}
      /\ \A i \in 1..Len(source) :
            /\ SeqLower(source[i].track_name) # SeqLower(request.song_name)
            /\ ~SeqContains(SeqLower(source[i].track_name),
                            SeqLower(request.song_name)) )
    => (outcome = "ok" /\ result = << >>)

\* the query is matched after its surrounding whitespace is removed
StrippedNameUnmatched ==
    /\ MissingColumns(columns) = {}
    /\ \A i \in 1..Len(source) :
        /\ SeqStrip(SeqLower(source[i].track_name))
              # SeqStrip(SeqLower(request.song_name))
        /\ ~SeqContains(SeqLower(source[i].track_name),
                        SeqStrip(SeqLower(request.song_name)))

\* C10 as amended: a name whose lower-cased, whitespace-stripped form no
\* track_name equals (stripped alike) or contains yields an empty result and
\* no error.
C10_UnmatchedStrippedNameEmpty ==
    (pc = "returned" /\ request.op = "by_name" /\ StrippedNameUnmatched)
    => (outcome = "ok" /\ result = << >>)

\* an unmatched name was asked of a catalog of several tracks, with rows
\* requested
C10_Witness ==
    /\ pc = "returned" /\ request.op = "by_name" /\ StrippedNameUnmatched
    /\ Len(source) >= 3 /\ request.top_k >= 1
    /\ outcome = "ok" /\ result = << >>

\* the rows of the frame whose name equals / contains the query, compared
\* without regard to case
NamesEqual(q) ==
    { i \in 1..Len(Frame) : SeqLower(Frame[i].track_name) = SeqLower(q) }

NamesContaining(q) ==
    { i \in 1..Len(Frame) :
        SeqContains(SeqLower(Frame[i].track_name), SeqLower(q)) }

\* the same with surrounding whitespace removed: from the query, and for
\* equality from the name too
NamesEqualStripped(q) ==
    { i \in 1..Len(Frame) :
        SeqStrip(SeqLower(Frame[i].track_name)) = SeqStrip(SeqLower(q)) }

NamesContainingStripped(q) ==
    { i \in 1..Len(Frame) :
        SeqContains(SeqLower(Frame[i].track_name), SeqStrip(SeqLower(q))) }

\* the first of the exact matches, else the first of the others, else no row
FirstOf(exact, partial) ==
    IF exact # {} THEN Min(exact)
    ELSE IF partial # {} THEN Min(partial) ELSE 0

\* C11 as stated: a name query takes as its reference the first row whose
\* track_name equals the query without regard to case, and when there is
\* none the first row whose track_name contains it.
C11_ReferenceExactThenContains ==
    (pc = "returned" /\ request.op = "by_name" /\ outcome = "ok") =>
        reference = FirstOf(NamesEqual(request.song_name),
                            NamesContaining(request.song_name))

\* C11 as amended: the query is lower-cased and stripped of surrounding
\* whitespace; the reference is the first row whose lower-cased, stripped
\* track_name equals it, and when there is none the first row whose
\* lower-cased track_name contains it.
C11_ReferenceStrippedExactThenContains ==
    (pc = "returned" /\ request.op = "by_name" /\ outcome = "ok") =>
        reference = FirstOf(NamesEqualStripped(request.song_name),
                            NamesContainingStripped(request.song_name))

\* the exact match was taken although an earlier row contains the query
C11_Witness ==
    /\ pc = "returned" /\ request.op = "by_name" /\ outcome = "ok"
    /\ reference \in NamesEqualStripped(request.song_name)
    /\ \E j \in NamesContainingStripped(request.song_name) : j < reference

\* C12: a mood that is not a prototype name, compared without regard to
\* case, does not fail and returns the rows, order and scores that the mood
\* "calm" returns for the same count.
C12_UnknownMoodAsCalm ==
    ( /\ pc = "returned" /\ request.op = "mood"
      /\ MissingColumns(columns) = {}
      /\ StrLower(request.mood) \notin MoodNames )
    => /\ outcome = "ok"
       /\ result = MoodRows(Frame, FEATURE_MATRIX[1], SCALER, "calm",
                            request.top_k)

\* an unknown mood has returned several rows
C12_Witness ==
    /\ pc = "returned" /\ request.op = "mood" /\ outcome = "ok"
    /\ StrLower(request.mood) \notin MoodNames
    /\ Len(result) >= 2
    /\ result[1].similarity > result[2].similarity

\* what a call with the arguments of the last call returns in a process
\* that has made no call before: outcome and rows
FreshAnswer ==
    Bind(LoadSongData(source, columns).df, LAMBDA frame :
    Bind(ScalerFit(frame), LAMBDA sc :
      IF request.op = "mood"
      THEN [ outcome |-> "ok",
             rows |-> MoodRows(frame, BuildMatrix(frame, sc, None),
                               Holding(sc), request.mood, request.top_k) ]
      ELSE Bind(IF request.op = "similar"
                THEN IdMatches(frame, request.track_id)
                ELSE NameMatches(frame, request.song_name), LAMBDA matches :
             IF matches = {}
             THEN [ outcome |-> IF request.op = "similar" THEN "KeyError"
                                ELSE "ok",
                    rows |-> << >> ]
             ELSE IF SimilarError(frame, Min(matches),
                                  request.use_genre_boost) # None
             THEN [ outcome |-> SimilarError(frame, Min(matches),
                                             request.use_genre_boost),
                    rows |-> << >> ]
             ELSE [ outcome |-> "ok",
                    rows |-> SimilarRows(frame,
                                         BuildMatrix(frame, sc, request.preset),
                                         Min(matches), request.top_k,
                                         request.use_genre_boost,
                                         request.use_artist_diversity) ])))

\* C13: with an unchanged catalog the rows, order and scores a query returns
\* depend on its arguments alone: whatever calls came before, it returns
\* what it returns as the first call of a process.
C13_AnswerIndependentOfHistory ==
    (pc = "returned" /\ MissingColumns(columns) = {}) =>
        \A fresh \in { FreshAnswer } :
            outcome = fresh.outcome /\ result = fresh.rows

\* a query without preset was answered from the cache an earlier call filled
C13_Witness ==
    /\ pc = "returned" /\ request.op = "similar" /\ outcome = "ok"
    /\ request.preset = None /\ ~rebuilt
    /\ Len(result) >= 2

\* a step in which an operation runs from call to return
CallStep == pc = "idle" /\ pc' = "returned"

\* C14: in a sequence of operations the source is read by the first
\* operation, and once the catalog is cached it is never read again: every
\* later operation works on the cached catalog.
C14_CatalogReadOnce ==
    [][ /\ (CallStep /\ SONGS_DF = Unset /\ MissingColumns(columns) = {})
            => /\ loads' = loads + 1
               /\ SONGS_DF' = Holding(LoadSongData(source, columns).df)
        /\ SONGS_DF # Unset
            => /\ loads' = loads
               /\ instance' = instance
               /\ SONGS_DF' = SONGS_DF ]_vars

\* a later operation has run on the catalog read once
C14_Witness ==
    /\ pc = "returned" /\ request.op = "mood" /\ outcome = "ok"
    /\ ~rebuilt /\ loads = 1 /\ result # << >>

\* the preset a call was made with; a mood query has none
PresetOf(req) == IF req.op = "mood" THEN None ELSE req.preset

\* the step is an operation that got its catalog
ServedStep == CallStep /\ outcome' # "ValueError"

\* the cache, when set, holds the unweighted matrix
CacheUnweighted ==
    FEATURE_MATRIX # Unset => FEATURE_MATRIX[1] = UnweightedMatrix(Frame)

\* C17 as stated: the cached matrix is the unweighted one; a query naming a
\* preset rebuilds its matrix and leaves the cache alone; a query without
\* preset or with the preset "default" is answered from the cache, without
\* a rebuild, once the cache is set.
C17_DefaultPresetFromCache ==
    /\ []CacheUnweighted
    /\ [][ ServedStep =>
          /\ PresetOf(request') \notin { None, "default" }
                => (rebuilt' /\ FEATURE_MATRIX' = FEATURE_MATRIX)
          /\ (PresetOf(request') \in { None, "default" } /\ FEATURE_MATRIX # Unset)
                => (~rebuilt' /\ FEATURE_MATRIX' = FEATURE_MATRIX) ]_vars

\* C17 as amended: the cached matrix is the unweighted one; a query naming
\* any preset, "default" included, rebuilds its matrix and leaves the cache
\* alone; a query without preset is answered from the cache, without a
\* rebuild, once the cache is set, and fills the cache when it is not.
C17_OnlyNoPresetFromCache ==
    /\ []CacheUnweighted
    /\ [][ ServedStep =>
          /\ PresetOf(request') # None
                => (rebuilt' /\ FEATURE_MATRIX' = FEATURE_MATRIX)
          /\ (PresetOf(request') = None /\ FEATURE_MATRIX # Unset)
                => (~rebuilt' /\ FEATURE_MATRIX' = FEATURE_MATRIX)
          /\ (PresetOf(request') = None /\ FEATURE_MATRIX = Unset)
                => (rebuilt' /\ FEATURE_MATRIX' # Unset) ]_vars

\* a query with the preset "default" has rebuilt its matrix beside a set
\* cache
C17_Witness ==
    /\ pc = "returned" /\ request.op = "similar" /\ outcome = "ok"
    /\ request.preset = "default"
    /\ rebuilt /\ FEATURE_MATRIX # Unset

\* the scaler, when it exists, was fitted once on the catalog, and exists
\* whenever a matrix is cached or a mood query has computed its scores
ScalerFittedOnce ==
    /\ fits <= 1
    /\ SCALER # Unset => (fits = 1 /\ SCALER[1] = ScalerFit(Frame))
    /\ FEATURE_MATRIX # Unset => SCALER # Unset
    /\ (pc = "returned" /\ request.op = "mood" /\ outcome = "ok")
          => SCALER # Unset

\* C18: the scaler is fitted exactly once, by the first build of a feature
\* matrix, and never again; every later build and every mood query works
\* with that fitted scaler.
C18_ScalerFitOnceByFirstBuild ==
    /\ []ScalerFittedOnce
    /\ [][ /\ (rebuilt' /\ SCALER = Unset) => (fits' = 1 /\ SCALER' # Unset)
           /\ SCALER # Unset => (fits' = fits /\ SCALER' = SCALER) ]_vars

\* a preset was built with the scaler an earlier build had fitted
C18_Witness ==
    /\ pc = "returned" /\ request.op = "similar" /\ outcome = "ok"
    /\ request.preset = "workout" /\ rebuilt
    /\ fits = 1 /\ FEATURE_MATRIX # Unset

\* the twelve columns the claim names as required
TwelveRequired ==
    { "track_id", "track_name", "track_artist",
      "danceability", "energy", "loudness", "speechiness", "acousticness",
      "instrumentalness", "liveness", "valence", "tempo" }

\* C19: the load fails with the schema error exactly when one of the twelve
\* required columns is absent from the source; the absence of optional
\* columns never makes it fail.
C19_SchemaErrorIffRequiredMissing ==
    pc = "returned" =>
        /\ outcome = "ValueError" <=> ~(TwelveRequired \subseteq columns)
        /\ TwelveRequired \subseteq columns => (SONGS_DF # Unset /\ loads = 1)
        /\ outcome = "ValueError" => (SONGS_DF = Unset /\ result = << >>)

\* a load has failed on a source that lacks a required column
C19_Witness ==
    /\ pc = "returned" /\ outcome = "ValueError" /\ loads = 1
    /\ "tempo" \notin columns

\* C20: a load that fails with the schema error is surfaced to the caller
\* and not retried: after it the source is not read again, neither in that
\* operation nor in a later one.
C20_FailedLoadNotRetried ==
    /\ [](pc = "returned" /\ ~(TwelveRequired \subseteq columns)
             => outcome = "ValueError")
    /\ [][ (loads >= 1 /\ SONGS_DF = Unset) => loads' = loads ]_vars

\* C15: when requests trigger the first initialization concurrently, the
\* catalog is read and the unweighted matrix built at most once, a cache
\* once set is not assigned again, and all requests work on one catalog
\* instance.
C15_FirstWriterWins ==
    /\ loads <= 1
    /\ Cardinality({ t \in Threads : threads[t].built }) <= 1
    /\ \A t \in Threads : ~threads[t].overwrote
    /\ \A t, u \in Threads :
          (threads[t].inst # 0 /\ threads[u].inst # 0)
              => threads[t].inst = threads[u].inst

\* C16: no request transforms through a scaler that is not fitted: every
\* request ends without error and with the matrix it gets when the requests
\* run one after the other.
C16_NoTransformBeforeFit ==
    \A t \in Threads :
        /\ threads[t].outcome # "NotFittedError"
        /\ threads[t].pc = "done"
              => /\ threads[t].outcome = "ok"
                 /\ \A sc \in { ScalerFit(SONGS_DF[1]) } :
                       threads[t].X
                         = BuildMatrix(SONGS_DF[1], sc, threads[t].preset)

\* a mood query has returned rows
MoodReturned ==
    pc = "returned" /\ request.op = "mood" /\ outcome = "ok"

\* the cosine similarity of every catalog row to the prototype of the mood
\* the last query resolved to
MoodCosines ==
    Bind(ScalerFit(Frame), LAMBDA sc :
      CosineSimilarity(ScalerTransform(sc, ProtoRaw(MoodKey(request.mood))),
                       BuildMatrix(Frame, sc, None)))

\* the factor the claim gives a release year, in hundredths; year 0 is a
\* missing or unparseable date
ClaimedYearFactor(year) ==
    IF year = 0 THEN 100
    ELSE IF year < 2000 THEN 108
    ELSE IF year >= 2000 /\ year <= 2009 THEN 105
    ELSE 100

\* C21: only for the mood "nostalgic" is a row's score its cosine similarity
\* times 1.08 (release year before 2000), 1.05 (2000 to 2009) or 1.0
\* (otherwise, a missing date included); for every other mood, and for an
\* unrecognized mood, the score is the cosine similarity itself.
C21_YearBoostOnlyNostalgic ==
    (MoodReturned /\ result # << >>) =>
        \A cos \in { MoodCosines } :
        \A k \in 1..Len(result) :
            result[k].similarity =
                IF StrLower(request.mood) = "nostalgic"
                THEN DivT(cos[result[k].idx]
                            * ClaimedYearFactor(result[k].track.year), 100)
                ELSE cos[result[k].idx]

\* the factor has put a row of the years 2000 to 2009 before a row without
\* release date that has the higher cosine
C21_Witness ==
    /\ MoodReturned /\ request.mood = "nostalgic"
    /\ \E cos \in { MoodCosines } :
       \E k \in 1..(Len(result) - 1) :
          /\ result[k].track.year >= 2000 /\ result[k].track.year < 2010
          /\ result[k + 1].track.year = 0
          /\ cos[result[k].idx] < cos[result[k + 1].idx]

\* one of the four service functions has returned
ServiceReturned ==
    /\ pc = "returned"
    /\ service.fn \in { "get_recommendations", "get_similar_songs_by_name",
                        "get_similar_songs_by_track_id",
                        "get_song_by_track_id" }

\* the value is a float that is nan, inf or -inf
NonFinite(cell) == cell.kind = "float" /\ cell.s \in { "nan", "inf", "-inf" }

\* the rows of the engine as records, before the service has touched them:
\* the rows of the result, or the row the lookup found
EngineRecords ==
    IF service.fn = "get_song_by_track_id"
    THEN IF service.value = Unset THEN << >>
         ELSE << SongDict(Frame[Min(IdMatches(Frame, request.track_id))]) >>
    ELSE IF outcome = "ok" THEN ToRecords(result, explanation) ELSE << >>

\* C22: no record a service function returns holds nan, inf or -inf: every
\* such value of the engine's row is None in the record, and every other
\* value is the engine's.
C22_NoNanInRecords ==
    ServiceReturned =>
        \A raw \in { EngineRecords } :
            /\ Len(service.value) = Len(raw)
            /\ \A i \in 1..Len(raw) :
                  /\ DOMAIN service.value[i] = DOMAIN raw[i]
                  /\ \A k \in DOMAIN raw[i] :
                        /\ ~NonFinite(service.value[i][k])
                        /\ IF NonFinite(raw[i][k])
                           THEN service.value[i][k].kind = "null"
                           ELSE service.value[i][k] = raw[i][k]

\* a returned record had an empty genre cell, an inf and a -inf in the
\* engine's row
C22_Witness ==
    /\ ServiceReturned /\ service.fn = "get_similar_songs_by_track_id"
    /\ \E raw \in { EngineRecords } :
       \E i \in 1..Len(raw) :
          /\ raw[i]["liveness"].s = "inf"
          /\ raw[i]["speechiness"].s = "-inf"
          /\ raw[i]["valence"].s = "nan"
          /\ service.value[i]["liveness"].kind = "null"
    /\ \E raw \in { EngineRecords } :
       \E i \in 1..Len(raw) :
          /\ NonFinite(raw[i]["playlist_genre"])
          /\ service.value[i]["playlist_genre"].kind = "null"

\* C23: a text request that carries the name of a mood prototype gets the
\* recommendations of recommend_by_mood for that mood.
C23_TextMoodUsedDirectly ==
    ( /\ pc = "returned" /\ service.fn = "recommend_from_text"
      /\ service.mood \in MoodNames
      /\ MissingColumns(columns) = {} )
    => /\ service.raised = None
       /\ \A rows \in { MoodRows(Frame, FEATURE_MATRIX[1], SCALER, service.mood,
                                  DEFAULT_LIMIT) } :
             [ i \in 1..Len(service.value) |->
                 << service.value[i]["track_id"].s,
                    service.value[i]["similarity"].n >> ]
               = [ i \in 1..Len(rows) |->
                     << rows[i].track.track_id, rows[i].similarity >> ]

\* C28: the service functions never raise: whatever the engine raises
\* becomes the empty list, or None for the lookup; an unknown track id and
\* an unmatched name both come back as the empty list.
C28_ServiceNeverRaises ==
    ServiceReturned =>
        /\ service.raised = None
        /\ outcome # "ok" => service.value = << >>
        /\ ( /\ service.fn \in { "get_similar_songs_by_track_id",
                                  "get_similar_songs_by_name" }
             /\ MissingColumns(columns) = {}
             /\ reference = 0 )
           => service.value = << >>

\* the engine has raised for an unknown track id on a loaded catalog
C28_Witness ==
    /\ ServiceReturned /\ service.fn = "get_similar_songs_by_track_id"
    /\ outcome = "KeyError" /\ SONGS_DF # Unset
    /\ service.value = << >> /\ service.raised = None

\* the rows the last similarity query returns for its reference when it is
\* made with the given preset and genre boost and is otherwise the same
ResultAs(preset, use_genre_boost) ==
    Bind(ScalerFit(Frame), LAMBDA sc :
      SimilarRows(Frame, BuildMatrix(Frame, sc, preset), RefIdx, request.top_k,
                  use_genre_boost, request.use_artist_diversity))

\* the candidates of the last similarity query: the rows that do not carry
\* the track_id of the reference
CandidateRows ==
    { i \in 1..Len(Frame) : Frame[i].track_id # Frame[RefIdx].track_id }

\* C24: for the same reference and catalog the query with preset "workout"
\* and the query with preset "chill" return different orderings whenever
\* the tempo or energy values of the candidates are not all equal (here:
\* and at least two rows are returned).
C24_WorkoutChillOrderingsDiffer ==
    ( /\ SimilarReturned /\ request.preset = "workout" /\ Len(result) >= 2
      /\ \E i, j \in CandidateRows :
            \/ Frame[i].feat.tempo # Frame[j].feat.tempo
            \/ Frame[i].feat.energy # Frame[j].feat.energy )
    => \A chill \in { ResultAs("chill", request.use_genre_boost) } :
          [ k \in 1..Len(result) |-> result[k].idx ]
            # [ k \in 1..Len(chill) |-> chill[k].idx ]

\* C25: when the reference has no known genre (no genre column, or an
\* empty genre cell) a query with use_genre_boost completes without error
\* and returns what it returns without the boost; when the reference has a
\* genre and no subgenre the query completes and every score carries the
\* genre boost alone.
C25_UnknownGenreNoBoostNoError ==
    ( /\ pc = "returned" /\ request.op \in { "similar", "by_name" }
      /\ reference # 0 /\ request.use_genre_boost )
    => /\ Frame[RefIdx].playlist_genre \in { None, NaN }
            => /\ outcome = "ok"
               /\ result = ResultAs(request.preset, FALSE)
       /\ ( /\ Frame[RefIdx].playlist_genre \notin { None, NaN }
            /\ Frame[RefIdx].playlist_subgenre \in { None, NaN } )
            => /\ outcome = "ok"
               /\ \A base \in { BaseSims } :
                  \A k \in 1..Len(result) :
                     result[k].similarity =
                        IF StrLower(result[k].track.playlist_genre)
                             = StrLower(Frame[RefIdx].playlist_genre)
                        THEN DivT(base[result[k].idx] * GENRE_BOOST_FACTOR, 100)
                        ELSE base[result[k].idx]

\* the candidates of the last similarity query in the order of their
\* scores, before the cut to top_k
Candidates ==
    Bind(ScalerFit(Frame), LAMBDA sc :
      ScoredCandidates(Frame, BuildMatrix(Frame, sc, request.preset), RefIdx,
                       request.use_genre_boost))

\* C26: with use_artist_diversity and top_k >= 1 the result is the greedy
\* selection over the candidates in descending score order: the result is
\* a subsequence of the candidates; a candidate is left out exactly when two
\* higher-ranked candidates of its artist were selected or top_k candidates
\* were selected before it; the result has min(top_k, sum over the artists
\* of min(2, candidates of the artist)) rows (the sum counts the candidates
\* that are among the first two of their artist); and the result equals
\* the first top_k candidates when no artist has more than two of them.
C26_GreedyDiversity ==
    ( /\ SimilarReturned /\ reference # 0
      /\ request.use_artist_diversity /\ request.top_k >= 1 ) =>
        \A cands \in { Candidates } :
        \A sel \in { { i \in 1..Len(cands) :
                         \E k \in 1..Len(result) : result[k] = cands[i] } } :
        \A firstTwo \in { { i \in 1..Len(cands) :
                Cardinality({ j \in 1..(i - 1) :
                    cands[j].track.track_artist = cands[i].track.track_artist })
                  < 2 } } :
            /\ result = RowsAt(cands, sel)
            /\ \A i \in 1..Len(cands) :
                  i \notin sel <=>
                    \/ Cardinality({ j \in sel : j < i /\
                          cands[j].track.track_artist
                            = cands[i].track.track_artist }) >= 2
                    \/ Cardinality({ j \in sel : j < i }) >= request.top_k
            /\ Len(result) = IF request.top_k < Cardinality(firstTwo)
                             THEN request.top_k ELSE Cardinality(firstTwo)
            /\ (\A k \in 1..Len(HeadRows(cands, request.top_k)) :
                   ArtistCount(HeadRows(cands, request.top_k),
                               cands[k].track.track_artist) <= 2)
                  => result = HeadRows(cands, request.top_k)

\* a candidate was left out for its artist and a lower-ranked candidate of
\* another artist was selected after it
C26_Witness ==
    /\ SimilarReturned /\ reference # 0
    /\ request.use_artist_diversity /\ request.top_k >= 1
    /\ \E cands \in { Candidates } :
       \E i \in 1..Len(cands) :
          /\ \A k \in 1..Len(result) : result[k] # cands[i]
          /\ \E j \in (i + 1)..Len(cands) :
                \E k \in 1..Len(result) : result[k] = cands[j]

\* C27: the explanation of each mood result names the matched mood, the
\* prototype the rows were scored with: for an unrecognized request it
\* names the default mood and not the request string.
C27_ExplanationNamesMatchedMood ==
    MoodReturned =>
        \A k \in 1..Len(result) :
            explanation[k].mood = MoodKey(request.mood)

\* C29: analyze_audio polls the job at most max_wait_time // 3 times and
\* then ends.  It asks for the predictions only after a poll answered
\* COMPLETED; a poll that answers FAILED ends it with the job error, no
\* further poll and no predictions; when the polls are used up without
\* COMPLETED it ends with the time-out error, with no poll at all when
\* max_wait_time < 3.  Every run that has started the job ends.
C29_AnalyzeAudioTerminates ==
    /\ [](/\ audio.attempt <= audio.max_wait_time \div 3
          /\ (audio.predictions \/ audio.pc = "predictions")
                => audio.status = "COMPLETED"
          /\ audio.status = "COMPLETED" => audio.pc # "poll"
          /\ audio.status = "FAILED"
                => /\ audio.pc \notin { "poll", "predictions" }
                   /\ ~audio.predictions
                   /\ audio.error = "Job failed"
          /\ audio.error = "Timed out waiting for job to complete"
                => /\ audio.attempt = audio.max_wait_time \div 3
                   /\ audio.status \notin { "COMPLETED", "FAILED" }
                   /\ ~audio.predictions
          /\ ( /\ audio.pc = "analyzed"
               /\ audio.error \notin { "HUME API key not configured",
                                       "Start job failed", "HTTPError" } )
                => IF audio.status = "COMPLETED"
                   THEN audio.predictions /\ audio.error = None
                   ELSE IF audio.status = "FAILED"
                   THEN audio.error = "Job failed"
                   ELSE /\ audio.error
                             = "Timed out waiting for job to complete"
                        /\ audio.attempt = audio.max_wait_time \div 3)
    /\ (audio.pc \in { "poll", "predictions" }) ~> (audio.pc = "analyzed")

\* the default wait is used up: 40 polls, none of them COMPLETED or FAILED,
\* and the call has ended with the time-out error
C29_Witness ==
    /\ audio.pc = "analyzed"
    /\ audio.max_wait_time = DEFAULT_MAX_WAIT
    /\ audio.attempt = 40
    /\ audio.status = "IN_PROGRESS"
    /\ audio.error = "Timed out waiting for job to complete"

\* C30: when a request of the audio endpoint has finished, none of the
\* temporary files the endpoint made is left on disk, whatever the outcome.
C30_TempFilesDeleted ==
    audio.pc \in { "done", "idle" } => audio.tmp = {}

====
